---------------------------- MODULE Spec2Model ----------------------------
(***************************************************************************)
(* Model of the rule-based planning and advisory core of PokemonAI:        *)
(*   - GoalPlanner  (src/agent/planning/goal_planner.py)                   *)
(*   - Navigator    (src/agent/core/navigator.py)                          *)
(*   - BattleManager(src/agent/core/battle_manager.py)                     *)
(* Each public method is one action; the helper methods are operators.     *)
(*                                                                         *)
(* Conventions                                                             *)
(*   - goal ids "goal_<n>" are the integers n; None is 0.                  *)
(*   - self.goals (an insertion-ordered dict keyed goal_1..goal_counter)   *)
(*     is the sequence `goals`, position n holding goal_n.                 *)
(*   - a goal's note log is kept by its length: the note texts embed       *)
(*     caller-supplied reasons and are read by no operation.               *)
(*   - name, description, created_at and completed_at are not modelled:    *)
(*     no operation reads them.                                            *)
(*   - None returned by a method is 0, a raised RecursionError is -1.      *)
(***************************************************************************)
EXTENDS Integers, Sequences, FiniteSets, TLC, Bags

VARIABLES
    goals,        \* GoalPlanner.goals
    id_counter,   \* GoalPlanner._id_counter
    doc,          \* contents of PLANS_FILE (active_plans.json)
    seq_prev,     \* history: for a goal created as a sequential step, the previous step
    plast,        \* history: the last GoalPlanner call, its argument and its result
    nav,          \* the Navigator object's fields
    nlast,        \* history: the last Navigator call and its result
    bm,           \* the BattleManager object's fields
    blast,        \* history: the last BattleManager.update call and its events
    type_chart,   \* BattleManager.type_chart
    alast         \* history: the last type-effectiveness or move-recommendation call

vars == <<goals, id_counter, doc, seq_prev, plast, nav, nlast, bm, blast, type_chart, alast>>
plannerVars == <<goals, id_counter, doc, seq_prev, plast>>
navVars == <<nav, nlast>>
adviceVars == <<type_chart, alast>>
battleVars == <<bm, blast, type_chart, alast>>

---------------------------------------------------------------------------
(* Bounds of the exploration *)

MaxGoals == 3          \* goals created in one run
MaxNotes == 1          \* note-appending calls explored in one run
RetryGoals == 1        \* goals created in a run of the retry specification
MaxRetryNotes == 12    \* note-appending calls explored in the retry specification
RecursionLimit == 6    \* frames a cascade on a self-parent goal runs (CPython: about 1000)
MaxCoord == 2          \* player coordinates passed to the navigator: 0..MaxCoord
MaxDirIdx == 2         \* largest alternation index explored
MaxTurns == 3          \* in-battle updates explored per battle
MaxBattles == 2        \* finished battles explored in one run
MaxMoney == 2          \* money values 0..MaxMoney
MaxDefend == 2         \* defending types passed to get_type_effectiveness
MaxMoves == 2          \* move slots passed to recommend_move
PersistGoals == 2      \* goals created in a run of the persistence specification
MaxPersistNotes == 2   \* notes appended in a run of the persistence specification
WalkCoord == 5         \* player coordinates of a navigation episode: 0..WalkCoord

Priorities == {1, 2}
NoSuchId == MaxGoals + 1   \* an id that names no goal in any run

---------------------------------------------------------------------------
(* GoalPlanner *)

PENDING == "pending"
ACTIVE == "active"
IN_PROGRESS == "in_progress"
COMPLETED == "completed"
FAILED == "failed"
BLOCKED == "blocked"

GoalStatus == {PENDING, ACTIVE, IN_PROGRESS, COMPLETED, FAILED, BLOCKED}

DefaultMaxAttempts == 10

RecursionError == -1

\* Goal(...) as add_goal constructs it: the dataclass defaults for the rest.
Goal(priority, parent_id, prerequisites) ==
    [status |-> PENDING,
     priority |-> priority,
     parent_id |-> parent_id,
     children_ids |-> <<>>,
     prerequisites |-> prerequisites,
     notes |-> 0,
     attempts |-> 0,
     max_attempts |-> DefaultMaxAttempts]

\* GoalStatus(str, Enum): a member is a str and equals its value
StatusValue(status) == status

\* the words found as a status in a stored record: the values of GoalStatus
\* and a word that is no status
StatusWords == GoalStatus \cup {"done"}

\* the largest id number whose text is tabulated
LargestId == 2 * (MaxGoals + PersistGoals)

\* json.dumps of a str none of whose characters is escaped: the characters
\* between double quotes
JsonString(s) == "\"" \o s \o "\""

\* json.dumps of None
JsonNull == "null"

\* the text json.dumps writes for the value of each status
JsonStatus == [status \in GoalStatus |-> JsonString(StatusValue(status))]

\* the text json.dumps writes for the id _next_id built from the counter
\* value n: "goal_<n>" between quotes
JsonIds == [n \in 1..LargestId |-> JsonString("goal_" \o ToString(n))]

\* PLANS_FILE does not exist
NoFile == [file |-> "missing", counter |-> 0, goals |-> <<>>]

\* _save: the document is the text json.dumps gives for the counter and
\* every goal's to_dict(), in dict order, written out in full. to_dict()
\* lists the id of the goal and its fields, the status as its value (name,
\* description and the two timestamps are not modelled); json.dumps writes
\* a str between quotes, None as null and a number as it is. In memory an
\* id goal_<n> is the number n and None is 0; the notes stay a count and
\* the records stay keyed by the number of their key.
SavedDoc(gs, counter) ==
    [file |-> "complete", counter |-> counter,
     goals |-> [i \in DOMAIN gs |->
        LET g == gs[i]
        IN  [parent_id |-> IF g.parent_id = 0 THEN JsonNull ELSE JsonIds[g.parent_id],
             priority |-> g.priority,
             prerequisites |->
                 IF g.prerequisites = <<>> THEN <<>>
                 ELSE [k \in DOMAIN g.prerequisites |-> JsonIds[g.prerequisites[k]]],
             status |-> JsonStatus[g.status],
             children_ids |->
                 IF g.children_ids = <<>> THEN <<>>
                 ELSE [k \in DOMAIN g.children_ids |-> JsonIds[g.children_ids[k]]],
             notes |-> g.notes,
             attempts |-> g.attempts,
             max_attempts |-> g.max_attempts,
             id |-> JsonIds[i]]]]

\* _prerequisites_met
PrerequisitesMet(gs, g) ==
    \A i \in DOMAIN g.prerequisites :
        /\ g.prerequisites[i] \in DOMAIN gs
        /\ gs[g.prerequisites[i]].status = COMPLETED

\* _next_id: the number in the id handed out next (ids are goal_<number>)
NextId(counter) == counter + 1

\* self.goals is a dict keyed by id: a function from the stored ids, which
\* are handed out in increasing order, so dict order is the order of the ids.
\* The ids in dict order:
RECURSIVE InOrder(_)
InOrder(ids) ==
    IF ids = {} THEN <<>>
    ELSE LET first == CHOOSE i \in ids : \A k \in ids : i <= k
         IN  <<first>> \o InOrder(ids \ {first})

\* d[key] = value for a key above every key of d. While the keys are
\* 1..key-1 the dict is a sequence and the assignment appends to it.
Put(d, key, value) ==
    IF DOMAIN d = 1..(key - 1) THEN Append(d, value) ELSE d @@ (key :> value)

\* len(self.goals)
Count(gs) == Cardinality(DOMAIN gs)

\* add_goal without its _save: the new goal is stored under goal_id, the id
\* _next_id returned, then appended to the parent's child list when the
\* parent id names a stored goal.
AddGoalTo(gs, goal_id, priority, parent_id, prerequisites) ==
    LET g1 == Put(gs, goal_id, Goal(priority, parent_id, prerequisites))
    IN  IF parent_id # 0 /\ parent_id \in DOMAIN g1
        THEN [g1 EXCEPT ![parent_id].children_ids = Append(@, goal_id)]
        ELSE g1

\* all(self.goals[cid].status == COMPLETED for cid in parent.children_ids if cid in self.goals)
AllChildrenCompleted(gs, p) ==
    \A i \in DOMAIN gs[p].children_ids :
        gs[p].children_ids[i] \in DOMAIN gs
            => gs[gs[p].children_ids[i]].status = COMPLETED

\* Mutant of CompleteGoalRec: the parent is completed but the cascade is not
\* carried on above it.
CompleteGoalOneLevel(gs, goal_id, hasNote, depth) ==
    IF goal_id \notin DOMAIN gs THEN [goals |-> gs, raised |-> FALSE]
    ELSE LET g1 == [gs EXCEPT ![goal_id].status = COMPLETED,
                              ![goal_id].notes = @ + (IF hasNote THEN 1 ELSE 0)]
             p == g1[goal_id].parent_id
         IN  IF p # 0 /\ p \in DOMAIN g1 /\ AllChildrenCompleted(g1, p)
             THEN [goals |-> [g1 EXCEPT ![p].status = COMPLETED, ![p].notes = @ + 1],
                   raised |-> FALSE]
             ELSE [goals |-> g1, raised |-> FALSE]

\* Stack levels the cascade test of complete_goal needs above its frame: the
\* generator expression runs in a frame of its own, and the comparison of a
\* status with GoalStatus.COMPLETED, evaluated for the first child that
\* passes the filter 'if cid in self.goals', takes one level more.
CascadeTestLevels(gs, p) ==
    IF \E i \in DOMAIN gs[p].children_ids : gs[p].children_ids[i] \in DOMAIN gs
    THEN 2 ELSE 1

\* complete_goal up to (not including) its _save. depth counts the frames of
\* complete_goal below this one. A frame sets status and note first; the
\* RecursionError of a cascade that runs out of stack is raised by the
\* cascade test of a frame that has already done so, and the error unwinds
\* every frame before any of them saves. RecursionLimit is the number of
\* frames that take effect on a goal that is its own parent; the levels
\* _save needs below a frame are not scaled down with it and not counted.
RECURSIVE CompleteGoalRec(_, _, _, _)
CompleteGoalRec(gs, goal_id, hasNote, depth) ==
    IF goal_id \notin DOMAIN gs THEN [goals |-> gs, raised |-> FALSE]
    ELSE LET g1 == [gs EXCEPT ![goal_id].status = COMPLETED,
                              ![goal_id].notes = @ + (IF hasNote THEN 1 ELSE 0)]
             p == g1[goal_id].parent_id
         IN  IF p = 0 \/ p \notin DOMAIN g1 THEN [goals |-> g1, raised |-> FALSE]
             ELSE IF depth + CascadeTestLevels(g1, p) > RecursionLimit
                  THEN [goals |-> g1, raised |-> TRUE]
             ELSE IF AllChildrenCompleted(g1, p)
                  THEN CompleteGoalRec(g1, p, TRUE, depth + 1)
                  ELSE [goals |-> g1, raised |-> FALSE]

\* fail_goal without its _save
FailGoalIn(gs, goal_id) ==
    LET a == gs[goal_id].attempts + 1
    IN  [gs EXCEPT ![goal_id].attempts = a,
                   ![goal_id].status = IF a >= gs[goal_id].max_attempts
                                       THEN FAILED ELSE PENDING,
                   ![goal_id].notes = @ + 1]

\* block_goal without its _save
BlockGoalIn(gs, goal_id) ==
    [gs EXCEPT ![goal_id].status = BLOCKED, ![goal_id].notes = @ + 1]

IsActive(g) == g.status \in {ACTIVE, IN_PROGRESS}

\* _get_next_child: the id of the child returned (0 for None, RecursionError
\* when the descent exceeds the recursion limit). A returned child that is
\* pending is the one the method promotes.
RECURSIVE GetNextChild(_, _, _)
GetNextChild(gs, parent, depth) ==
    IF depth >= RecursionLimit THEN RecursionError
    ELSE
    LET cs == gs[parent].children_ids
        Hit(i) == /\ cs[i] \in DOMAIN gs
                  /\ \/ IsActive(gs[cs[i]])
                     \/ gs[cs[i]].status = PENDING /\ PrerequisitesMet(gs, gs[cs[i]])
        hits == {i \in DOMAIN cs : Hit(i)}
    IN  IF hits = {} THEN 0
        ELSE LET i == CHOOSE j \in hits : \A k \in hits : j <= k
                 child == cs[i]
             IN  IF IsActive(gs[child]) /\ gs[child].children_ids # <<>>
                 THEN LET deeper == GetNextChild(gs, child, depth + 1)
                      IN  IF deeper # 0 THEN deeper ELSE child
                 ELSE child

\* Mutant of InsertByPriority: an unstable sort, equal priorities end up in
\* reverse insertion order.
InsertByPriorityUnstable(gs, sorted, id) ==
    LET after == {i \in DOMAIN sorted : gs[sorted[i]].priority >= gs[id].priority}
        pos == IF after = {} THEN Len(sorted) + 1
               ELSE CHOOSE i \in after : \A k \in after : i <= k
    IN  SubSeq(sorted, 1, pos - 1) \o <<id>> \o SubSeq(sorted, pos, Len(sorted))

\* list.sort(key=priority) on a list of goal ids: stable insertion by priority.
RECURSIVE SortByPriority(_, _)
InsertByPriority(gs, sorted, id) ==
    LET after == {i \in DOMAIN sorted : gs[sorted[i]].priority > gs[id].priority}
        pos == IF after = {} THEN Len(sorted) + 1
               ELSE CHOOSE i \in after : \A k \in after : i <= k
    IN  SubSeq(sorted, 1, pos - 1) \o <<id>> \o SubSeq(sorted, pos, Len(sorted))
SortByPriority(gs, ids) ==
    IF ids = <<>> THEN <<>>
    ELSE InsertByPriority(gs, SortByPriority(gs, SubSeq(ids, 1, Len(ids) - 1)),
                          ids[Len(ids)])

\* Mutant of IsCandidate: the prerequisites are not looked at.
IsCandidateAnyPrerequisites(gs, id) ==
    /\ gs[id].status = PENDING
    /\ gs[id].parent_id = 0

\* the last id in dict order (0 for an empty dict)
LastId(gs) ==
    LET ids == DOMAIN gs
        n == Cardinality(ids)
    IN  IF ids = 1..n THEN n ELSE CHOOSE i \in ids : \A k \in ids : i >= k

\* the candidates comprehension of _select_next_goal, in dict order
RECURSIVE CandidatesUpTo(_, _)
IsCandidate(gs, id) ==
    /\ gs[id].status = PENDING
    /\ gs[id].parent_id = 0
    /\ PrerequisitesMet(gs, gs[id])
CandidatesUpTo(gs, n) ==
    IF n = 0 THEN <<>>
    ELSE IF n \in DOMAIN gs /\ IsCandidate(gs, n) THEN Append(CandidatesUpTo(gs, n - 1), n)
    ELSE CandidatesUpTo(gs, n - 1)

\* _select_next_goal: the id it returns and promotes (0 for None)
SelectNextGoal(gs) ==
    LET candidates == CandidatesUpTo(gs, LastId(gs))
    IN  IF candidates = <<>> THEN 0 ELSE SortByPriority(gs, candidates)[1]

\* Mutant of CurrentGoal: the scan for a goal already active is skipped.
CurrentGoalNoScan(gs) == SelectNextGoal(gs)

\* get_current_goal: the id it returns (0 for None)
CurrentGoal(gs) ==
    LET act == {i \in DOMAIN gs : IsActive(gs[i])}
    IN  IF act = {} THEN SelectNextGoal(gs)
        ELSE LET goal == CHOOSE i \in act : \A k \in act : i <= k
             IN  IF gs[goal].children_ids # <<>>
                 THEN LET child == GetNextChild(gs, goal, 0)
                      IN  IF child # 0 THEN child ELSE goal
                 ELSE goal

\* the notes held by all goals together: the sum of len(goal.notes)
TotalNotes(gs) ==
    BagCardinality([i \in {j \in DOMAIN gs : gs[j].notes > 0} |-> gs[i].notes])

---------------------------------------------------------------------------
(* GoalPlanner: the calls *)

PlannerInit ==
    /\ goals = <<>>              \* __init__ with no PLANS_FILE on disk
    /\ id_counter = 0
    /\ doc = NoFile
    /\ seq_prev = <<>>
    /\ plast = [op |-> "init", arg |-> 0, ret |-> 0]

\* add_goal(name, description, priority, parent_id, prerequisites)
AddGoal(cap, priority, parent_id, prerequisites) ==
    /\ Count(goals) < cap
    /\ id_counter' = NextId(id_counter)
    /\ goals' = AddGoalTo(goals, id_counter', priority, parent_id, prerequisites)
    /\ doc' = SavedDoc(goals', id_counter')
    /\ seq_prev' = Put(seq_prev, id_counter', 0)
    /\ plast' = [op |-> "add_goal", arg |-> parent_id, ret |-> id_counter']
    /\ UNCHANGED <<navVars, battleVars>>

\* the goals whose prerequisites attribute is the list object shared by the
\* step dicts, given its content once the loop is over
WithSharedList(gs, aliased, list) ==
    IF aliased = {} THEN gs
    ELSE [g \in DOMAIN gs |->
             IF g \in aliased THEN [gs[g] EXCEPT !.prerequisites = list] ELSE gs[g]]

\* Mutant of AddSubgoalsLoop: the sequential flag is ignored.
RECURSIVE AddSubgoalsLoopNoChain(_, _, _, _, _, _, _, _, _)
AddSubgoalsLoopNoChain(gs, counter, parent_id, steps, shared, k, prev_id, list, aliased) ==
    IF k > Len(steps) THEN WithSharedList(gs, aliased, list)
    ELSE LET sg == steps[k]
             prereqs == IF shared THEN list ELSE sg.prerequisites
             gid == NextId(counter)
             g1 == AddGoalTo(gs, gid, sg.priority, parent_id, prereqs)
         IN  AddSubgoalsLoopNoChain(g1, gid, parent_id, steps, shared, k + 1, gid,
                                    IF shared THEN prereqs ELSE list,
                                    IF shared /\ prereqs # <<>>
                                    THEN aliased \cup {gid} ELSE aliased)

\* the loop of add_subgoals over steps k..Len(steps); prev_id is 0 for None.
\* prereqs is the list object of the step dict: when the step dicts share one
\* object (shared), `list` is its content so far, the append of an earlier
\* step included. add_goal stores `prerequisites or []`: the object itself
\* unless it is empty, so the goals in `aliased` see the later appends.
RECURSIVE AddSubgoalsLoop(_, _, _, _, _, _, _, _, _)
AddSubgoalsLoop(gs, counter, parent_id, steps, shared, k, prev_id, list, aliased) ==
    IF k > Len(steps) THEN WithSharedList(gs, aliased, list)
    ELSE LET sg == steps[k]
             object == IF shared THEN list ELSE sg.prerequisites
             prereqs == IF sg.sequential /\ prev_id # 0
                        THEN Append(object, prev_id)
                        ELSE object
             gid == NextId(counter)
             g1 == AddGoalTo(gs, gid, sg.priority, parent_id, prereqs)
         IN  AddSubgoalsLoop(g1, gid, parent_id, steps, shared, k + 1, gid,
                             IF shared THEN prereqs ELSE list,
                             IF shared /\ prereqs # <<>>
                             THEN aliased \cup {gid} ELSE aliased)

\* add_subgoals(parent_id, subgoals); the step dicts carry a prerequisites
\* list each, or (shared) all the same list object, with the content of the
\* first step's. A step dict is passed to one call only.
AddSubgoals(cap, parent_id, steps, shared) ==
    /\ Len(steps) > 0
    /\ Count(goals) + Len(steps) <= cap
    /\ shared => \A k \in DOMAIN steps : steps[k].prerequisites = steps[1].prerequisites
    /\ goals' = AddSubgoalsLoop(goals, id_counter, parent_id, steps, shared, 1, 0,
                                steps[1].prerequisites, {})
    /\ id_counter' = id_counter + Len(steps)
    /\ doc' = SavedDoc(goals', id_counter')
    /\ seq_prev' = seq_prev @@ [id \in (id_counter + 1)..(id_counter + Len(steps)) |->
                       IF id > id_counter + 1 /\ steps[id - id_counter].sequential
                       THEN id - 1 ELSE 0]
    /\ plast' = [op |-> "add_subgoals", arg |-> parent_id, ret |-> id_counter']
    /\ UNCHANGED <<navVars, battleVars>>

\* complete_goal(goal_id, notes); hasNote: the notes argument is non-empty
CompleteGoal(goal_id, hasNote, noteCap) ==
    /\ LET r == CompleteGoalRec(goals, goal_id, hasNote, 0)
       IN  /\ TotalNotes(r.goals) > TotalNotes(goals) => TotalNotes(goals) < noteCap
           /\ goals' = r.goals
           /\ doc' = IF r.raised \/ goal_id \notin DOMAIN goals
                     THEN doc ELSE SavedDoc(r.goals, id_counter)
           /\ plast' = [op |-> "complete_goal", arg |-> goal_id,
                        ret |-> IF r.raised THEN RecursionError ELSE 0]
    /\ UNCHANGED <<id_counter, seq_prev, navVars, battleVars>>

\* fail_goal(goal_id, reason)
FailGoal(goal_id, noteCap) ==
    /\ TotalNotes(goals) < noteCap
    /\ IF goal_id \in DOMAIN goals
       THEN /\ goals' = FailGoalIn(goals, goal_id)
            /\ doc' = SavedDoc(goals', id_counter)
       ELSE UNCHANGED <<goals, doc>>
    /\ plast' = [op |-> "fail_goal", arg |-> goal_id, ret |-> 0]
    /\ UNCHANGED <<id_counter, seq_prev, navVars, battleVars>>

\* block_goal(goal_id, reason)
BlockGoal(goal_id, noteCap) ==
    /\ TotalNotes(goals) < noteCap
    /\ IF goal_id \in DOMAIN goals
       THEN /\ goals' = BlockGoalIn(goals, goal_id)
            /\ doc' = SavedDoc(goals', id_counter)
       ELSE UNCHANGED <<goals, doc>>
    /\ plast' = [op |-> "block_goal", arg |-> goal_id, ret |-> 0]
    /\ UNCHANGED <<id_counter, seq_prev, navVars, battleVars>>

\* get_current_goal(): a returned goal that is pending was promoted by
\* _get_next_child or _select_next_goal, which also saved
GetCurrentGoal ==
    /\ LET r == CurrentGoal(goals)
       IN  /\ IF r > 0 /\ goals[r].status = PENDING
              THEN /\ goals' = [goals EXCEPT ![r].status = ACTIVE]
                   /\ doc' = SavedDoc(goals', id_counter)
              ELSE UNCHANGED <<goals, doc>>
           /\ plast' = [op |-> "get_current_goal", arg |-> 0, ret |-> r]
    /\ UNCHANGED <<id_counter, seq_prev, navVars, battleVars>>

StepChoices ==
    [priority : {5}, prerequisites : {<<>>}, sequential : BOOLEAN]

StepLists ==
    {<<a>> : a \in StepChoices} \cup {<<a, b>> : a, b \in StepChoices}
        \cup {<<a, b, c>> : a, b, c \in StepChoices}

---------------------------------------------------------------------------
(* GoalPlanner: persistence *)

\* json.loads of the text of a str: the characters between the quotes
JsonLoadsWord(text) == CHOOSE w \in StatusWords : JsonString(w) = text

\* json.loads of the text of an id: the number n of goal_<n>
JsonLoadsId(text) == CHOOSE n \in 1..LargestId : JsonIds[n] = text

\* json.loads of a list of ids
JsonLoadsIdList(texts) == [k \in DOMAIN texts |-> JsonLoadsId(texts[k])]

\* json.loads of one goal record: the dict from_dict receives, None for
\* null
JsonLoadsRecord(text) ==
    [text EXCEPT !.id = JsonLoadsId(@),
                 !.status = JsonLoadsWord(@),
                 !.parent_id = IF @ = JsonNull THEN 0 ELSE JsonLoadsId(@),
                 !.children_ids = JsonLoadsIdList(@),
                 !.prerequisites = JsonLoadsIdList(@)]

\* Goal.from_dict: GoalStatus(data["status"]) raises for a value that is not
\* a status
ValidRecord(data) == \E status \in GoalStatus : StatusValue(status) = data.status

\* GoalStatus(value): the status with that value
StatusOfValue(value) == CHOOSE status \in GoalStatus : StatusValue(status) = value

\* Mutant of FromDict: the notes are not restored.
FromDictNoNotes(data) ==
    [status |-> StatusOfValue(data.status),
     priority |-> data.priority,
     parent_id |-> data.parent_id,
     children_ids |-> data.children_ids,
     prerequisites |-> data.prerequisites,
     notes |-> 0,
     attempts |-> data.attempts,
     max_attempts |-> data.max_attempts]

\* Goal.from_dict on a valid record: cls(**data) with the status replaced by
\* the status of that value. The goal's id is data["id"]; _load stores the
\* goal under the key of the record, and in every document explored the two
\* are the same id, so the goal carries none apart from its key.
FromDict(data) ==
    [status |-> StatusOfValue(data.status),
     priority |-> data.priority,
     parent_id |-> data.parent_id,
     children_ids |-> data.children_ids,
     prerequisites |-> data.prerequisites,
     notes |-> data.notes,
     attempts |-> data.attempts,
     max_attempts |-> data.max_attempts]

\* the loop of _load over the records json.loads returned, from i on: the
\* first invalid record raises, the handler logs, and the goals stored
\* before it stay
RECURSIVE LoadLoop(_, _, _)
LoadLoop(records, i, gs) ==
    LET gids == InOrder(DOMAIN records)
    IN  IF i > Len(gids) THEN [goals |-> gs, failed |-> FALSE]
        ELSE IF ValidRecord(records[gids[i]])
             THEN LoadLoop(records, i + 1, Put(gs, gids[i], FromDict(records[gids[i]])))
             ELSE [goals |-> gs, failed |-> TRUE]

\* __init__ followed by _load: self.goals and self._id_counter afterwards.
\* No file: nothing is read. A cut file: json.loads raises before anything
\* is assigned. Otherwise json.loads returns the whole document, the counter
\* is assigned first, then the records are loaded in document order.
LoadFrom(d) ==
    IF d.file = "missing" THEN [goals |-> <<>>, counter |-> 0, failed |-> FALSE]
    ELSE IF d.file = "cut" THEN [goals |-> <<>>, counter |-> 0, failed |-> TRUE]
    ELSE LET data == [i \in DOMAIN d.goals |-> JsonLoadsRecord(d.goals[i])]
             r == LoadLoop(data, 1, <<>>)
         IN  [goals |-> r.goals, counter |-> d.counter, failed |-> r.failed]

\* PLANS_FILE.write_text interrupted: the file was opened for writing, which
\* empties it, and the process died after `written` items of the new text
\* reached the disk (0: nothing; k > 0: the counter and k - 1 goal records).
\* The closing braces are missing in every case.
InterruptedDoc(d, written) ==
    IF written = 0 THEN [file |-> "cut", counter |-> 0, goals |-> <<>>]
    ELSE LET gids == InOrder(DOMAIN d.goals)
         IN  [file |-> "cut", counter |-> d.counter,
              goals |-> [gid \in {gids[k] : k \in 1..(written - 1)} |-> d.goals[gid]]]

\* GoalPlanner(): a process start over the stored document
Construct ==
    /\ LET r == LoadFrom(doc)
       IN  /\ goals' = r.goals
           /\ id_counter' = r.counter
           /\ seq_prev' = [i \in DOMAIN r.goals |-> 0]
           /\ plast' = [op |-> "construct", arg |-> 0,
                        ret |-> IF r.failed THEN 1 ELSE 0]
    /\ UNCHANGED <<doc, navVars, battleVars>>

\* main() with --reset-goals: the plans file is deleted before GameLoop()
\* constructs the planner
ResetGoals ==
    /\ doc' = NoFile
    /\ LET r == LoadFrom(NoFile)
       IN  /\ goals' = r.goals
           /\ id_counter' = r.counter
           /\ seq_prev' = <<>>
           /\ plast' = [op |-> "construct", arg |-> 1, ret |-> 0]
    /\ UNCHANGED <<navVars, battleVars>>

\* add_goal whose _save is interrupted by a crash of the process
AddGoalCrashing(cap, priority, parent_id, prerequisites, written) ==
    /\ Count(goals) < cap
    /\ id_counter' = NextId(id_counter)
    /\ goals' = AddGoalTo(goals, id_counter', priority, parent_id, prerequisites)
    /\ written <= Count(goals') + 1
    /\ doc' = InterruptedDoc(SavedDoc(goals', id_counter'), written)
    /\ seq_prev' = Put(seq_prev, id_counter', 0)
    /\ plast' = [op |-> "crashed", arg |-> parent_id, ret |-> id_counter']
    /\ UNCHANGED <<navVars, battleVars>>

\* GameLoop._tick step 15: get_current_goal(), then by the decision-maker's
\* goal_update text: complete_goal, fail_goal, or a progress note appended
\* to the goal object
ProcessGoalUpdate(goal_update, noteCap) ==
    /\ LET r == CurrentGoal(goals)
           promoted == r > 0 /\ goals[r].status = PENDING
           g1 == IF promoted THEN [goals EXCEPT ![r].status = ACTIVE] ELSE goals
           d1 == IF promoted THEN SavedDoc(g1, id_counter) ELSE doc
           c == CompleteGoalRec(g1, r, TRUE, 0)
       IN  /\ goals' = IF r <= 0 THEN g1
                       ELSE IF goal_update = "complete" THEN c.goals
                       ELSE IF goal_update = "fail" THEN FailGoalIn(g1, r)
                       ELSE IF goal_update = "progress"
                            THEN [g1 EXCEPT ![r].notes = @ + 1]
                       ELSE g1
           /\ doc' = IF r <= 0 THEN d1
                     ELSE IF goal_update = "complete"
                          THEN (IF c.raised THEN d1 ELSE SavedDoc(c.goals, id_counter))
                     ELSE IF goal_update = "fail" THEN SavedDoc(goals', id_counter)
                     ELSE d1
           /\ TotalNotes(goals') <= noteCap
           /\ plast' = [op |-> "goal_update_" \o goal_update, arg |-> 0, ret |-> r]
    /\ UNCHANGED <<id_counter, seq_prev, navVars, battleVars>>

\* documents found at a process start: none, an empty file, a document the
\* planner wrote for two goals (goal_2 a child of goal_1 with goal_1 as its
\* prerequisite), and that document with the status of the second or of the
\* first record replaced by a word that is no status
TwoGoalsDoc == SavedDoc(AddGoalTo(AddGoalTo(<<>>, 1, 5, 0, <<>>), 2, 5, 1, <<1>>), 2)
StoredDocs ==
    {NoFile,
     InterruptedDoc(TwoGoalsDoc, 0),
     TwoGoalsDoc,
     [TwoGoalsDoc EXCEPT !.goals[2].status = JsonString("done")],
     [TwoGoalsDoc EXCEPT !.goals[1].status = JsonString("done")]}

\* the planner constructed over each stored document
PlannerInitStored ==
    /\ doc \in StoredDocs
    /\ goals = LoadFrom(doc).goals
    /\ id_counter = LoadFrom(doc).counter
    /\ seq_prev = [i \in DOMAIN goals |-> 0]
    /\ plast = [op |-> "construct", arg |-> 0,
                ret |-> IF LoadFrom(doc).failed THEN 1 ELSE 0]

\* the process runs until it crashes; goals are added as roots or under a
\* stored goal. The ids handed out after a load that dropped records go on
\* from the stored counter.
Running == plast.op # "crashed"

\* the largest id a run can hand out: the stored counter of TwoGoalsDoc and
\* one id for every goal added
LastPersistId == 2 + PersistGoals

PersistNext ==
    \/ Construct
    \/ ResetGoals
    \/ Running /\
           \E pa \in {0} \cup DOMAIN goals : AddGoal(PersistGoals, 5, pa, <<>>)
    \/ Running /\ \E id \in 1..LastPersistId, n \in BOOLEAN :
           CompleteGoal(id, n, MaxPersistNotes)
    \/ Running /\ \E id \in 1..LastPersistId : FailGoal(id, MaxPersistNotes)
    \/ Running /\ GetCurrentGoal
    \/ Running /\ \E u \in {"complete", "fail", "progress", "none"} :
           ProcessGoalUpdate(u, MaxPersistNotes)
    \/ Running /\
           \E pa \in {0} \cup DOMAIN goals, w \in 0..(PersistGoals + 1) :
               AddGoalCrashing(PersistGoals, 5, pa, <<>>, w)

---------------------------------------------------------------------------
(* Navigator *)

NONE == "NONE"
Directions == {"UP", "DOWN", "LEFT", "RIGHT"}

GiveUpThreshold == 15
StuckThreshold == 3
DetourBase == 3
DetourCap == 12

\* _load_warp_data without data/warp_data.json: the empty registry
NoWarpData == <<>>

\* _load_warp_data over a landmark registry data/warp_data.json, here two
\* maps with three landmarks.
WarpData ==
    [m \in {1, 2} |->
        IF m = 1 THEN [k \in {"a", "b"} |-> IF k = "a" THEN <<0, 0>> ELSE <<2, 2>>]
        ELSE [k \in {"c"} |-> <<1, 0>>]]

\* the registries a navigator is constructed over
WarpFiles == {NoWarpData, WarpData}

Abs(n) == IF n < 0 THEN -n ELSE n
Min(a, b) == IF a < b THEN a ELSE b

\* Navigator.__init__ over the registry _load_warp_data returned; target
\* None is <<>>, _detour_dir None is NONE
NewNavigatorOver(warp_data) ==
    [warp_data |-> warp_data,
     target |-> <<>>, target_map |-> -1, active |-> FALSE,
     prev_x |-> -1, prev_y |-> -1, stuck_count |-> 0, stuck_dir_idx |-> 0,
     detour_dir |-> NONE, detour_ticks |-> 0, total_stuck |-> 0]

\* Navigator.__init__ with no registry file on disk
NewNavigator == NewNavigatorOver(NoWarpData)

\* Mutant of SetTargetOn: a new target keeps the cumulative stuck counter.
SetTargetOnNoReset(n, map_id, landmark_key) ==
    IF map_id \notin DOMAIN n.warp_data THEN [nav |-> n, ret |-> FALSE]
    ELSE IF landmark_key \notin DOMAIN n.warp_data[map_id] THEN [nav |-> n, ret |-> FALSE]
    ELSE [nav |-> [n EXCEPT !.target = n.warp_data[map_id][landmark_key],
                            !.target_map = map_id,
                            !.active = TRUE,
                            !.stuck_count = 0,
                            !.prev_x = -1,
                            !.prev_y = -1,
                            !.stuck_dir_idx = 0,
                            !.detour_dir = NONE,
                            !.detour_ticks = 0],
          ret |-> TRUE]

\* set_target: the fields after the call and the value returned
SetTargetOn(n, map_id, landmark_key) ==
    IF map_id \notin DOMAIN n.warp_data THEN [nav |-> n, ret |-> FALSE]
    ELSE IF landmark_key \notin DOMAIN n.warp_data[map_id] THEN [nav |-> n, ret |-> FALSE]
    ELSE [nav |-> [n EXCEPT !.target = n.warp_data[map_id][landmark_key],
                            !.target_map = map_id,
                            !.active = TRUE,
                            !.stuck_count = 0,
                            !.prev_x = -1,
                            !.prev_y = -1,
                            !.stuck_dir_idx = 0,
                            !.detour_dir = NONE,
                            !.detour_ticks = 0,
                            !.total_stuck = 0],
          ret |-> TRUE]

\* Mutant of CancelOn: the detour is left running.
CancelKeepsDetour(n) ==
    [n EXCEPT !.active = FALSE, !.target = <<>>, !.target_map = -1, !.total_stuck = 0]

\* cancel
CancelOn(n) ==
    [n EXCEPT !.active = FALSE, !.target = <<>>, !.target_map = -1,
              !.detour_dir = NONE, !.detour_ticks = 0, !.total_stuck = 0]

\* Mutant of StartDetour: the length is not capped.
StartDetourUncapped(n, dx, dy, via) ==
    LET options == IF Abs(dx) >= Abs(dy) THEN <<"UP", "DOWN">> ELSE <<"LEFT", "RIGHT">>
        dir == options[(n.stuck_dir_idx % Len(options)) + 1]
    IN  [nav |-> [n EXCEPT !.detour_dir = dir,
                           !.detour_ticks = DetourBase + n.total_stuck * 2,
                           !.stuck_count = 0],
         ret |-> dir,
         via |-> via]

\* Mutant of StartDetour: the alternation index is ignored.
StartDetourFirstOption(n, dx, dy, via) ==
    LET detour_len == Min(DetourBase + n.total_stuck * 2, DetourCap)
        options == IF Abs(dx) >= Abs(dy) THEN <<"UP", "DOWN">> ELSE <<"LEFT", "RIGHT">>
    IN  [nav |-> [n EXCEPT !.detour_dir = options[1],
                           !.detour_ticks = detour_len,
                           !.stuck_count = 0],
         ret |-> options[1],
         via |-> via]

\* _start_detour: the fields after the call and the direction returned; via
\* names the return statement of get_next_direction that passes it on
StartDetour(n, dx, dy, via) ==
    LET detour_len == Min(DetourBase + n.total_stuck * 2, DetourCap)
        options == IF Abs(dx) >= Abs(dy) THEN <<"UP", "DOWN">> ELSE <<"LEFT", "RIGHT">>
        dir == options[(n.stuck_dir_idx % Len(options)) + 1]
    IN  [nav |-> [n EXCEPT !.detour_dir = dir,
                           !.detour_ticks = detour_len,
                           !.stuck_count = 0],
         ret |-> dir,
         via |-> via]

\* Mutant of Arrived: one axis within a tile is enough.
ArrivedEitherAxis(dx, dy) == Abs(dx) <= 1 \/ Abs(dy) <= 1

\* the arrival test of get_next_direction
Arrived(dx, dy) == Abs(dx) <= 1 /\ Abs(dy) <= 1

\* Mutant of Greedy: a tie goes to the X axis.
GreedyXOnTie(dx, dy) ==
    IF Abs(dx) >= Abs(dy) THEN (IF dx > 0 THEN "RIGHT" ELSE "LEFT")
    ELSE (IF dy > 0 THEN "DOWN" ELSE "UP")

\* Mutant of Greedy: the Y axis is taken to grow upward.
GreedyYUpward(dx, dy) ==
    IF Abs(dx) > Abs(dy) THEN (IF dx > 0 THEN "RIGHT" ELSE "LEFT")
    ELSE IF Abs(dy) > 0 THEN (IF dy > 0 THEN "UP" ELSE "DOWN")
    ELSE (IF dx > 0 THEN "RIGHT" ELSE "LEFT")

\* normal pathfinding of get_next_direction: close the larger gap first
Greedy(dx, dy) ==
    IF Abs(dx) > Abs(dy) THEN (IF dx > 0 THEN "RIGHT" ELSE "LEFT")
    ELSE IF Abs(dy) > 0 THEN (IF dy > 0 THEN "DOWN" ELSE "UP")
    ELSE (IF dx > 0 THEN "RIGHT" ELSE "LEFT")

\* Mutant of StuckDetection: the navigator never gives up.
StuckDetectionNoGiveUp(n, x, y, dx, dy) ==
    LET n1 == [n EXCEPT !.stuck_count = IF x = n.prev_x /\ y = n.prev_y
                                         THEN n.stuck_count + 1 ELSE 0,
                        !.prev_x = x,
                        !.prev_y = y]
    IN  IF n1.stuck_count >= StuckThreshold
        THEN StartDetour([n1 EXCEPT !.total_stuck = @ + 1], dx, dy, "stuck")
        ELSE [nav |-> n1, ret |-> Greedy(dx, dy), via |-> "greedy"]

\* get_next_direction from its stuck detection on
StuckDetection(n, x, y, dx, dy) ==
    LET n1 == [n EXCEPT !.stuck_count = IF x = n.prev_x /\ y = n.prev_y
                                         THEN n.stuck_count + 1 ELSE 0,
                        !.prev_x = x,
                        !.prev_y = y]
    IN  IF n1.stuck_count >= StuckThreshold
        THEN StartDetour([n1 EXCEPT !.total_stuck = @ + 1], dx, dy, "stuck")
        ELSE IF n1.total_stuck >= GiveUpThreshold
        THEN [nav |-> CancelOn(n1), ret |-> NONE, via |-> "give_up"]
        ELSE [nav |-> n1, ret |-> Greedy(dx, dy), via |-> "greedy"]

\* Mutant of AfterDetourTick: the tick that ends the detour still returns its
\* direction, normal pathfinding waits for the next call.
AfterDetourTickNextCall(n1, x, y, dx, dy) ==
    [nav |-> n1, ret |-> n1.detour_dir, via |-> "detour"]

\* the detour step of get_next_direction once the tick is counted: the detour
\* direction while ticks remain, else the fall-through to stuck detection
AfterDetourTick(n1, x, y, dx, dy) ==
    IF n1.detour_ticks > 0
    THEN [nav |-> n1, ret |-> n1.detour_dir, via |-> "detour"]
    ELSE StuckDetection(n1, x, y, dx, dy)

\* get_next_direction: the fields after the call, the value returned and the
\* return statement taken (inactive, map_changed, arrived, detour_blocked,
\* detour, stuck, give_up, greedy)
NextDirection(n, x, y, current_map) ==
    IF ~n.active \/ n.target = <<>> THEN [nav |-> n, ret |-> NONE, via |-> "inactive"]
    ELSE IF current_map # n.target_map
    THEN [nav |-> CancelOn(n), ret |-> NONE, via |-> "map_changed"]
    ELSE LET dx == n.target[1] - x
             dy == n.target[2] - y
         IN  IF Arrived(dx, dy)
             THEN [nav |-> [n EXCEPT !.active = FALSE, !.total_stuck = 0],
                   ret |-> NONE, via |-> "arrived"]
             ELSE IF n.detour_ticks > 0
             THEN IF x = n.prev_x /\ y = n.prev_y
                  THEN StartDetour([n EXCEPT !.detour_ticks = 0,
                                             !.stuck_dir_idx = @ + 1,
                                             !.stuck_count = StuckThreshold,
                                             !.prev_x = x,
                                             !.prev_y = y], dx, dy, "detour_blocked")
                  ELSE AfterDetourTick([n EXCEPT !.detour_ticks = @ - 1,
                                                 !.prev_x = x,
                                                 !.prev_y = y], x, y, dx, dy)
             ELSE StuckDetection(n, x, y, dx, dy)

NavInit ==
    /\ nav = NewNavigator
    /\ nlast = [op |-> "init", x |-> 0, y |-> 0, map |-> 0, key |-> "", ticks |-> 0,
                ret |-> NONE, via |-> ""]

\* the navigator constructed with or without a registry file
NavInitOver ==
    /\ nav \in {NewNavigatorOver(warp_data) : warp_data \in WarpFiles}
    /\ nlast = [op |-> "init", x |-> 0, y |-> 0, map |-> 0, key |-> "", ticks |-> 0,
                ret |-> NONE, via |-> ""]

\* set_target(map_id, landmark_key)
SetTarget(map_id, landmark_key) ==
    /\ LET r == SetTargetOn(nav, map_id, landmark_key)
       IN  /\ nav' = r.nav
           /\ nlast' = [op |-> "set_target", x |-> 0, y |-> 0, map |-> map_id,
                        key |-> landmark_key, ticks |-> 0,
                        ret |-> IF r.ret THEN "TRUE" ELSE "FALSE", via |-> ""]
    /\ UNCHANGED <<plannerVars, battleVars>>

\* get_next_direction(player_x, player_y, current_map)
GetNextDirection(player_x, player_y, current_map) ==
    /\ LET r == NextDirection(nav, player_x, player_y, current_map)
       IN  /\ r.nav.stuck_dir_idx <= MaxDirIdx
           /\ nav' = r.nav
           /\ nlast' = [op |-> "get_next_direction", x |-> player_x, y |-> player_y,
                        map |-> current_map, key |-> "", ticks |-> nav.detour_ticks,
                        ret |-> r.ret, via |-> r.via]
    /\ UNCHANGED <<plannerVars, battleVars>>

\* cancel()
Cancel ==
    /\ nav' = CancelOn(nav)
    /\ nlast' = [op |-> "cancel", x |-> 0, y |-> 0, map |-> 0, key |-> "", ticks |-> 0,
                 ret |-> NONE, via |-> ""]
    /\ UNCHANGED <<plannerVars, battleVars>>

\* the set_target calls explored: the three landmarks, a key of another map,
\* a key of no map, a map without entry
SetTargetInputs ==
    {<<1, "a">>, <<1, "b">>, <<2, "c">>, <<1, "c">>, <<1, "zz">>, <<3, "a">>}

NavNext ==
    \/ \E i \in SetTargetInputs : SetTarget(i[1], i[2])
    \/ \E x \in 0..MaxCoord, y \in 0..MaxCoord, m \in {1, 2} : GetNextDirection(x, y, m)
    \/ Cancel


---------------------------------------------------------------------------
(* BattleManager *)

\* BattleManager.__init__ (battles_fled is never written; type_chart is read
\* by the type-effectiveness methods only)
NewBattleManager ==
    [in_battle |-> FALSE, battle_type |-> 0, battle_turns |-> 0,
     battles_won |-> 0, whiteouts |-> 0, prev_money |-> 0, prev_party_hp |-> <<>>]

\* Mutant of AllFainted: one fainted member is enough.
AnyFainted(party) ==
    IF party = <<>> THEN FALSE
    ELSE \E i \in DOMAIN party : party[i].hp_current = 0

\* all(p.get("hp_current", 0) == 0 for p in party) if party else False
AllFainted(party) ==
    IF party = <<>> THEN FALSE
    ELSE \A i \in DOMAIN party : party[i].hp_current = 0

\* Mutants of UpdateOn: keepTurns leaves the turn counter as it is when a
\* battle starts; countBoth counts a whiteout as a win too.
UpdateOnVariant(b, new_battle, party, money, keepTurns, countBoth) ==
    IF ~b.in_battle /\ new_battle > 0
    THEN [bm |-> [b EXCEPT !.in_battle = TRUE,
                           !.battle_type = new_battle,
                           !.battle_turns = IF keepTurns THEN @ ELSE 0,
                           !.prev_party_hp = [i \in DOMAIN party |->
                                                 <<party[i].hp_current, party[i].hp_max>>],
                           !.prev_money = money],
          battle_start |-> IF new_battle = 1 THEN "wild" ELSE "trainer",
          battle_end |-> ""]
    ELSE IF b.in_battle /\ new_battle = 0
    THEN IF AllFainted(party) \/ money < b.prev_money
         THEN [bm |-> [b EXCEPT !.in_battle = FALSE, !.whiteouts = @ + 1,
                                !.battles_won = IF countBoth THEN @ + 1 ELSE @,
                                !.battle_type = 0],
               battle_start |-> "", battle_end |-> "whiteout"]
         ELSE [bm |-> [b EXCEPT !.in_battle = FALSE, !.battles_won = @ + 1,
                                !.battle_type = 0],
               battle_start |-> "", battle_end |-> "won"]
    ELSE IF b.in_battle
    THEN [bm |-> [b EXCEPT !.battle_turns = @ + 1], battle_start |-> "", battle_end |-> ""]
    ELSE [bm |-> b, battle_start |-> "", battle_end |-> ""]

UpdateOnKeepsTurns(b, new_battle, party, money) ==
    UpdateOnVariant(b, new_battle, party, money, TRUE, FALSE)

UpdateOnCountsBoth(b, new_battle, party, money) ==
    UpdateOnVariant(b, new_battle, party, money, FALSE, TRUE)

\* Mutant of UpdateOn: the battle kind is not reset when a battle ends.
UpdateOnKeepsKind(b, new_battle, party, money) ==
    LET r == UpdateOnVariant(b, new_battle, party, money, FALSE, FALSE)
    IN  IF r.battle_end # "" THEN [r EXCEPT !.bm.battle_type = b.battle_type] ELSE r

\* update(game_state): the fields after the call and the events dict returned
\* (an absent key is ""). new_battle is game_state.in_battle, a bool being
\* its integer value.
UpdateOn(b, new_battle, party, money) ==
    IF ~b.in_battle /\ new_battle > 0
    THEN [bm |-> [b EXCEPT !.in_battle = TRUE,
                           !.battle_type = new_battle,
                           !.battle_turns = 0,
                           !.prev_party_hp = [i \in DOMAIN party |->
                                                 <<party[i].hp_current, party[i].hp_max>>],
                           !.prev_money = money],
          battle_start |-> IF new_battle = 1 THEN "wild" ELSE "trainer",
          battle_end |-> ""]
    ELSE IF b.in_battle /\ new_battle = 0
    THEN IF AllFainted(party) \/ money < b.prev_money
         THEN [bm |-> [b EXCEPT !.in_battle = FALSE, !.whiteouts = @ + 1,
                                !.battle_type = 0],
               battle_start |-> "", battle_end |-> "whiteout"]
         ELSE [bm |-> [b EXCEPT !.in_battle = FALSE, !.battles_won = @ + 1,
                                !.battle_type = 0],
               battle_start |-> "", battle_end |-> "won"]
    ELSE IF b.in_battle
    THEN [bm |-> [b EXCEPT !.battle_turns = @ + 1], battle_start |-> "", battle_end |-> ""]
    ELSE [bm |-> b, battle_start |-> "", battle_end |-> ""]

\* GameState.read: in_battle = battle_raw in (1, 2), a bool (True is 1)
ReadInBattle(battle_raw) == IF battle_raw \in {1, 2} THEN 1 ELSE 0

BattleInit ==
    /\ bm = NewBattleManager
    /\ blast = [op |-> "init", in_battle |-> 0, party |-> <<>>, money |-> 0,
                battle_start |-> "", battle_end |-> "", since |-> 0, raw |-> 0]

\* history: the update calls made since the one that reported the start of
\* the battle in progress (0 outside a battle)
CallsSince(battle_start, still_in_battle) ==
    IF battle_start # "" \/ ~still_in_battle THEN 0 ELSE blast.since + 1

\* the exploration stops a battle after MaxTurns in-battle updates and a run
\* after MaxBattles finished battles
WithinBattleBounds(r) ==
    /\ r.bm.battle_turns <= MaxTurns
    /\ r.bm.battles_won + r.bm.whiteouts <= MaxBattles

\* update(game_state) called with a snapshot whose in_battle is the code itself
Update(new_battle, party, money) ==
    /\ LET r == UpdateOn(bm, new_battle, party, money)
       IN  /\ WithinBattleBounds(r)
           /\ bm' = r.bm
           /\ blast' = [op |-> "update", in_battle |-> new_battle, party |-> party,
                        money |-> money, battle_start |-> r.battle_start,
                        battle_end |-> r.battle_end,
                        since |-> CallsSince(r.battle_start, r.bm.in_battle),
                        raw |-> new_battle]
    /\ UNCHANGED <<plannerVars, navVars, adviceVars>>

\* get_battle_context: the battle kind reported to the decision-maker
BattleLabel(b) == IF b.battle_type = 1 THEN "WILD" ELSE "TRAINER"

\* GameLoop._tick steps 1 and 3: the snapshot comes from GameState.read, whose
\* raw battle code is kept in the history field raw
TickUpdate(battle_raw, party, money) ==
    /\ LET r == UpdateOn(bm, ReadInBattle(battle_raw), party, money)
       IN  /\ WithinBattleBounds(r)
           /\ bm' = r.bm
           /\ blast' = [op |-> "tick", in_battle |-> ReadInBattle(battle_raw),
                        party |-> party, money |-> money,
                        battle_start |-> r.battle_start, battle_end |-> r.battle_end,
                        since |-> CallsSince(r.battle_start, r.bm.in_battle),
                        raw |-> battle_raw]
    /\ UNCHANGED <<plannerVars, navVars, adviceVars>>

\* party lists of the snapshots explored: empty, one or two members
Member(hp) == [hp_current |-> hp, hp_max |-> 20]
Parties ==
    {<<>>, <<Member(0)>>, <<Member(5)>>, <<Member(0), Member(0)>>,
     <<Member(0), Member(5)>>}

\* the snapshots read through GameState.read: every raw battle code, a
\* fainted or a standing one-member party, money 0 or 1
TickParties == {<<Member(0)>>, <<Member(5)>>}

BattleNext ==
    \/ \E c \in 0..2, p \in Parties, m \in 0..MaxMoney : Update(c, p, m)
    \/ \E c \in 0..2, p \in TickParties, m \in {0, 1} : TickUpdate(c, p, m)

---------------------------------------------------------------------------
(* BattleManager: type effectiveness and move recommendation *)

\* Effectiveness factors are kept exact, as fractions in lowest terms.
RECURSIVE GCD(_, _)
GCD(a, b) == IF b = 0 THEN a ELSE GCD(b, a % b)

Rat(n, d) ==
    IF n = 0 THEN [num |-> 0, den |-> 1]
    ELSE [num |-> n \div GCD(n, d), den |-> d \div GCD(n, d)]

Zero == Rat(0, 1)
Half == Rat(1, 2)
One == Rat(1, 1)
Two == Rat(2, 1)

\* multiplier *= matchups[dtype]
Mul(a, b) == Rat(a.num * b.num, a.den * b.den)

\* effectiveness > best_effectiveness
Greater(a, b) == a.num * b.den > b.num * a.den

\* entries of SPECIES_TYPES
SPECIES_TYPES ==
    "Bulbasaur" :> <<"Grass", "Poison">> @@
    "Charmander" :> <<"Fire">> @@
    "Geodude" :> <<"Rock", "Ground">> @@
    "Gastly" :> <<"Ghost", "Poison">>

\* entries of MOVE_TYPES
MOVE_TYPES ==
    "Tackle" :> "Normal" @@
    "Ember" :> "Fire" @@
    "Water Gun" :> "Water" @@
    "Surf" :> "Water" @@
    "Vine Whip" :> "Grass"

\* _load_type_chart: the chart is what the chart file holds, and the empty
\* dict when the file cannot be read
EmptyChart == <<>>

\* a chart file holding rows of the game's table
GameChart ==
    "Normal" :> ("Rock" :> Half @@ "Ghost" :> Zero) @@
    "Fire" :> ("Fire" :> Half @@ "Water" :> Half @@ "Grass" :> Two @@ "Rock" :> Half) @@
    "Water" :> ("Fire" :> Two @@ "Water" :> Half @@ "Grass" :> Half @@
                "Ground" :> Two @@ "Rock" :> Two) @@
    "Grass" :> ("Fire" :> Half @@ "Water" :> Two @@ "Grass" :> Half @@
                "Poison" :> Half @@ "Ground" :> Two @@ "Rock" :> Two)

\* a chart file with few rows, neutral entries written out and a row of
\* super-effective entries for Normal
SparseChart ==
    "Normal" :> ("Fire" :> Two @@ "Rock" :> Two @@ "Ground" :> One) @@
    "Water" :> ("Rock" :> Two @@ "Ground" :> Half @@ "Fire" :> Two)

TypeCharts == {EmptyChart, GameChart, SparseChart}

\* the rows of a chart: self.type_chart.get(attack_type, {})
Matchups(chart, attack_type) ==
    IF attack_type \in DOMAIN chart THEN chart[attack_type] ELSE <<>>

\* Mutant of EffectivenessLoop: the loop stops at the first defending type
\* found in the row.
RECURSIVE EffectivenessLoopFirstOnly(_, _, _, _)
EffectivenessLoopFirstOnly(matchups, defend_types, i, multiplier) ==
    IF i > Len(defend_types) THEN multiplier
    ELSE IF defend_types[i] \in DOMAIN matchups
         THEN Mul(multiplier, matchups[defend_types[i]])
         ELSE EffectivenessLoopFirstOnly(matchups, defend_types, i + 1, multiplier)

\* for dtype in defend_types: if dtype in matchups: multiplier *= matchups[dtype]
RECURSIVE EffectivenessLoop(_, _, _, _)
EffectivenessLoop(matchups, defend_types, i, multiplier) ==
    IF i > Len(defend_types) THEN multiplier
    ELSE EffectivenessLoop(matchups, defend_types, i + 1,
             IF defend_types[i] \in DOMAIN matchups
             THEN Mul(multiplier, matchups[defend_types[i]])
             ELSE multiplier)

\* get_type_effectiveness(attack_type, defend_types) on a manager whose
\* type_chart is chart; the empty string stands for a falsy attack type
GetTypeEffectivenessOn(chart, attack_type, defend_types) ==
    IF DOMAIN chart = {} \/ attack_type = "" THEN One
    ELSE EffectivenessLoop(Matchups(chart, attack_type), defend_types, 1, One)

\* recommend_move returns None
NoAdvice == [move |-> "", effectiveness |-> Zero]

\* Mutant of MoveLoop: a later move of equal effectiveness replaces the best.
RECURSIVE MoveLoopLastBest(_, _, _, _, _)
MoveLoopLastBest(chart, moves, enemy_types, i, best) ==
    IF i > Len(moves) THEN best
    ELSE IF moves[i] = "" \/ moves[i] = "---" \/ moves[i] \notin DOMAIN MOVE_TYPES
         THEN MoveLoopLastBest(chart, moves, enemy_types, i + 1, best)
         ELSE LET effectiveness ==
                      GetTypeEffectivenessOn(chart, MOVE_TYPES[moves[i]], enemy_types)
              IN  MoveLoopLastBest(chart, moves, enemy_types, i + 1,
                      IF ~Greater(best.effectiveness, effectiveness)
                      THEN [move |-> moves[i], effectiveness |-> effectiveness]
                      ELSE best)

\* for move_name in moves: skip empty slots and moves of unknown type, keep
\* the move whose effectiveness is strictly above the best so far
RECURSIVE MoveLoop(_, _, _, _, _)
MoveLoop(chart, moves, enemy_types, i, best) ==
    IF i > Len(moves) THEN best
    ELSE IF moves[i] = "" \/ moves[i] = "---" \/ moves[i] \notin DOMAIN MOVE_TYPES
         THEN MoveLoop(chart, moves, enemy_types, i + 1, best)
         ELSE LET effectiveness ==
                      GetTypeEffectivenessOn(chart, MOVE_TYPES[moves[i]], enemy_types)
              IN  MoveLoop(chart, moves, enemy_types, i + 1,
                      IF Greater(effectiveness, best.effectiveness)
                      THEN [move |-> moves[i], effectiveness |-> effectiveness]
                      ELSE best)

\* SPECIES_TYPES.get(enemy_name, [])
EnemyTypes(enemy_name) ==
    IF enemy_name \in DOMAIN SPECIES_TYPES THEN SPECIES_TYPES[enemy_name] ELSE <<>>

\* recommend_move(party_pokemon, enemy_name), moves being party_pokemon's
\* move list: the move and the factor named in the returned text, or NoAdvice
RecommendMoveOn(chart, moves, enemy_name) ==
    IF EnemyTypes(enemy_name) = <<>> THEN NoAdvice
    ELSE LET best == MoveLoop(chart, moves, EnemyTypes(enemy_name), 1, NoAdvice)
         IN  IF best.move # "" /\ Greater(best.effectiveness, One)
             THEN best ELSE NoAdvice

AdviceInit(chart) ==
    /\ type_chart = chart
    /\ alast = [op |-> "init"]

GetTypeEffectiveness(attack_type, defend_types) ==
    /\ alast' = [op |-> "get_type_effectiveness", attack |-> attack_type,
                 defend |-> defend_types,
                 effectiveness |->
                     GetTypeEffectivenessOn(type_chart, attack_type, defend_types)]
    /\ UNCHANGED <<plannerVars, navVars, bm, blast, type_chart>>

RecommendMove(moves, enemy_name) ==
    /\ alast' = [op |-> "recommend_move", moves |-> moves, enemy |-> enemy_name,
                 advice |-> RecommendMoveOn(type_chart, moves, enemy_name)]
    /\ UNCHANGED <<plannerVars, navVars, bm, blast, type_chart>>

\* the inputs explored: attack types with and without a row and the falsy
\* one, defending-type lists up to MaxDefend, move lists up to MaxMoves with
\* two moves of one type, empty slots and a move of unknown type, known
\* species and an unknown one
AttackTypes == {"Normal", "Fire", "Water", "Electric", ""}
DefendTypes == {"Fire", "Rock", "Ground", "Ghost"}
MoveNames == {"Tackle", "Water Gun", "Surf", "---", "", "Move#999"}
EnemyNames == {"Charmander", "Geodude", "Gastly", "Unknown#0"}

SeqsUpTo(S, n) == UNION {[1..k -> S] : k \in 0..n}

AdviceNext ==
    \/ \E a \in AttackTypes, d \in SeqsUpTo(DefendTypes, MaxDefend) :
           GetTypeEffectiveness(a, d)
    \/ \E m \in SeqsUpTo(MoveNames, MaxMoves), e \in EnemyNames : RecommendMove(m, e)

\* the objects as constructed with no data files on disk
Init == PlannerInit /\ NavInit /\ BattleInit /\ AdviceInit(EmptyChart)

\* the manager constructed over each chart file explored
InitAdvice ==
    PlannerInit /\ NavInit /\ BattleInit /\ \E chart \in TypeCharts : AdviceInit(chart)

SpecAdvice == InitAdvice /\ [][AdviceNext]_vars

InitPersist == PlannerInitStored /\ NavInit /\ BattleInit /\ AdviceInit(EmptyChart)

SpecPersist == InitPersist /\ [][PersistNext]_vars

InitNav == PlannerInit /\ NavInitOver /\ BattleInit /\ AdviceInit(EmptyChart)

SpecNav == InitNav /\ [][NavNext]_vars

SpecBattle == Init /\ [][BattleNext]_vars

---------------------------------------------------------------------------
(* Specifications of the goal tree *)

\* The goal tree under add_goal with any parent reference (none, a stored
\* goal, the goal itself, the goal created next or never), completion
\* (called without a notes argument), failure, blocking and selection.
CascadeNext ==
    \/ \E pa \in 0..(Len(goals) + 2) : AddGoal(MaxGoals, 5, pa, <<>>)
    \/ \E id \in 1..MaxGoals : CompleteGoal(id, FALSE, MaxNotes)
    \/ \E id \in 1..MaxGoals : FailGoal(id, MaxNotes)
    \/ \E id \in 1..MaxGoals : BlockGoal(id, MaxNotes)
    \/ GetCurrentGoal

SpecCascade == Init /\ [][CascadeNext]_vars

\* Selection among roots: the add_goal arguments (priority, parent_id,
\* prerequisites) explored are two priorities of unconditioned roots, a root
\* waiting for goal_2 (not yet stored, itself, or stored) and a child of goal_1.
SelectInputs ==
    {<<1, 0, <<>>>>, <<2, 0, <<>>>>, <<1, 0, <<2>>>>, <<2, 1, <<>>>>}

SelectNext ==
    \/ \E in \in SelectInputs : AddGoal(MaxGoals, in[1], in[2], in[3])
    \/ \E id \in 1..MaxGoals : CompleteGoal(id, FALSE, MaxNotes)
    \/ \E id \in 1..MaxGoals : FailGoal(id, MaxNotes)
    \/ \E id \in 1..MaxGoals : BlockGoal(id, MaxNotes)
    \/ GetCurrentGoal

SpecSelect == Init /\ [][SelectNext]_vars

\* Sequential steps: roots, and add_subgoals under no parent or under goal_1
\* with one or two steps, each flagged sequential or not.
StepsNext ==
    \/ AddGoal(MaxGoals, 5, 0, <<>>)
    \/ \E pa \in {0, 1}, steps \in StepLists, shared \in BOOLEAN :
           AddSubgoals(MaxGoals, pa, steps, shared)
    \/ \E id \in 1..MaxGoals : CompleteGoal(id, FALSE, MaxNotes)
    \/ \E id \in 1..MaxGoals : FailGoal(id, MaxNotes)
    \/ \E id \in 1..MaxGoals : BlockGoal(id, MaxNotes)
    \/ GetCurrentGoal

SpecSteps == Init /\ [][StepsNext]_vars

\* Retries: few goals, enough failing calls to pass max_attempts.
RetryNext ==
    \/ AddGoal(RetryGoals, 5, 0, <<>>)
    \/ \E id \in 1..RetryGoals : CompleteGoal(id, FALSE, MaxRetryNotes)
    \/ \E id \in 1..RetryGoals : FailGoal(id, MaxRetryNotes)
    \/ \E id \in 1..RetryGoals : BlockGoal(id, MaxRetryNotes)
    \/ GetCurrentGoal

SpecRetry == Init /\ [][RetryNext]_vars

---------------------------------------------------------------------------
(* Claims about the goal tree *)

\* The goals reached from g by walking upward while every child of the
\* ancestor stepped to is completed.
RECURSIVE ReachedUpward(_, _, _)
ReachedUpward(gs, g, seen) ==
    LET p == gs[g].parent_id
    IN  IF p # 0 /\ p \in DOMAIN gs /\ p \notin seen /\ AllChildrenCompleted(gs, p)
        THEN ReachedUpward(gs, p, seen \cup {p})
        ELSE seen

ReturnedFrom(op) == plast.op = op /\ plast.ret # RecursionError

\* C1: after complete_goal(g) returns, g is completed and so is every
\* ancestor reached by walking upward from g while all children of that
\* ancestor are completed.
C1_CascadeCompletesAncestors ==
    (ReturnedFrom("complete_goal") /\ plast.arg \in DOMAIN goals)
        => \A x \in ReachedUpward(goals, plast.arg, {plast.arg}) :
               goals[x].status = COMPLETED

\* C1 witness: complete_goal(g) returned and its cascade completed the parent
\* and the grandparent, each noting "All sub-goals completed".
C1_Witness ==
    /\ ReturnedFrom("complete_goal")
    /\ plast.arg \in DOMAIN goals
    /\ LET g == plast.arg
           p == goals[g].parent_id
       IN  /\ p \in DOMAIN goals /\ p # g
           /\ goals[p].parent_id \in DOMAIN goals
           /\ goals[p].parent_id \notin {p, g}
           /\ goals[p].status = COMPLETED /\ goals[p].notes = 1
           /\ goals[goals[p].parent_id].status = COMPLETED
           /\ goals[goals[p].parent_id].notes = 1

\* C2 (as claimed): each fail_goal call raises attempts by exactly 1; the
\* status after the call is pending while attempts stays below max_attempts
\* and failed once it has reached it; a failed goal stays failed after every
\* later operation.
C2_FailCountsAndStaysFailed ==
    [][\A g \in DOMAIN goals :
          /\ (plast'.op = "fail_goal" /\ plast'.arg = g) =>
                /\ goals'[g].attempts = goals[g].attempts + 1
                /\ goals'[g].status =
                       IF goals'[g].attempts < goals'[g].max_attempts
                       THEN PENDING ELSE FAILED
          /\ goals[g].status = FAILED => goals'[g].status = FAILED]_vars

\* The part of C2 about the failing call itself.
C2_FailCallEffect ==
    [][\A g \in DOMAIN goals :
          (plast'.op = "fail_goal" /\ plast'.arg = g) =>
              /\ goals'[g].attempts = goals[g].attempts + 1
              /\ goals'[g].status =
                     IF goals'[g].attempts < goals'[g].max_attempts
                     THEN PENDING ELSE FAILED]_vars

\* C3 (as claimed): get_current_goal never returns a goal with a prerequisite
\* that is missing or not completed when it returns.
C3_CurrentGoalPrerequisitesMet ==
    (plast.op = "get_current_goal" /\ plast.ret > 0)
        => PrerequisitesMet(goals, goals[plast.ret])

\* C6 (as claimed): once a goal is completed or failed, no later call changes
\* its status.
C6_CompletedFailedTerminal ==
    [][\A g \in DOMAIN goals :
          goals[g].status \in {COMPLETED, FAILED}
              => goals'[g].status = goals[g].status]_vars

\* C7 (as claimed): attempts never exceeds max_attempts and never decreases.
C7_AttemptsBoundedMonotone ==
    [][\A g \in DOMAIN goals :
          /\ goals'[g].attempts >= goals[g].attempts
          /\ goals'[g].attempts <= goals'[g].max_attempts]_vars

\* C8 (as claimed): every active goal has all its prerequisites stored and
\* completed.
C8_ActiveHasPrerequisites ==
    \A g \in DOMAIN goals :
        goals[g].status = ACTIVE => PrerequisitesMet(goals, goals[g])

\* The root-level pending goals whose prerequisites are all completed.
Eligible(gs) ==
    {g \in DOMAIN gs : /\ gs[g].status = PENDING
                       /\ gs[g].parent_id = 0
                       /\ PrerequisitesMet(gs, gs[g])}

\* C9: when no goal is active or in_progress, get_current_goal returns the
\* eligible root with the smallest priority value, the earliest inserted among
\* equals, and sets it active; it returns none when there is no eligible root.
C9_SelectsBestRoot ==
    [][(plast'.op = "get_current_goal" /\ \A g \in DOMAIN goals : ~IsActive(goals[g]))
          => IF Eligible(goals) = {}
             THEN plast'.ret = 0 /\ goals' = goals
             ELSE /\ plast'.ret \in Eligible(goals)
                  /\ \A e \in Eligible(goals) :
                        \/ goals[plast'.ret].priority < goals[e].priority
                        \/ /\ goals[plast'.ret].priority = goals[e].priority
                           /\ plast'.ret <= e
                  /\ goals' = [goals EXCEPT ![plast'.ret].status = ACTIVE]]_vars

\* C9 witness: get_current_goal promoted goal_2 although goal_1 has the
\* smaller priority value (its prerequisite is not completed) and goal_3 ties
\* with goal_2.
C9_Witness ==
    /\ plast.op = "get_current_goal" /\ plast.ret = 2
    /\ Len(goals) = 3
    /\ \A g \in DOMAIN goals : goals[g].parent_id = 0
    /\ goals[1].priority < goals[2].priority
    /\ goals[1].status = PENDING /\ ~PrerequisitesMet(goals, goals[1])
    /\ goals[3].priority = goals[2].priority
    /\ goals[3].status = PENDING /\ PrerequisitesMet(goals, goals[3])
    /\ goals[2].status = ACTIVE

\* C10: get_current_goal never promotes a sequential step to active while the
\* step before it is not completed.
C10_SequentialStepsInOrder ==
    [][\A k \in DOMAIN goals :
          (/\ plast'.op = "get_current_goal"
           /\ seq_prev[k] # 0
           /\ goals[k].status # ACTIVE
           /\ goals'[k].status = ACTIVE)
              => goals[seq_prev[k]].status = COMPLETED]_vars

\* C10 witness: under an active parent the second sequential step has just
\* been promoted, its predecessor being completed.
C10_Witness ==
    /\ plast.op = "get_current_goal" /\ plast.ret \in DOMAIN goals
    /\ LET k == plast.ret
       IN  /\ seq_prev[k] # 0
           /\ goals[k].status = ACTIVE
           /\ goals[seq_prev[k]].status = COMPLETED
           /\ goals[k].parent_id \in DOMAIN goals
           /\ goals[goals[k].parent_id].status = ACTIVE
           /\ goals[seq_prev[k]].parent_id = goals[k].parent_id

---------------------------------------------------------------------------
(* Claims about the navigator *)

\* max(|tx - x|, |ty - y|) for a target <<tx, ty>>
Chebyshev(t, x, y) ==
    IF Abs(t[1] - x) >= Abs(t[2] - y) THEN Abs(t[1] - x) ELSE Abs(t[2] - y)

\* At the moment of a call get_next_direction(x, y, map): navigation is
\* inactive, or map is not the target map, or the target is within one tile.
NoneByClaim(n, x, y, map) ==
    \/ ~n.active
    \/ map # n.target_map
    \/ Chebyshev(n.target, x, y) <= 1

\* At the moment of a call: the cumulative stuck counter has reached the
\* give-up threshold and the call neither goes on with a detour nor starts
\* one (it finds no detour, or ends one, with fewer than three ticks without
\* movement counted).
GivesUp(n, x, y) ==
    LET same == x = n.prev_x /\ y = n.prev_y
    IN  /\ n.total_stuck >= GiveUpThreshold
        /\ \/ n.detour_ticks = 0 /\ ~(same /\ n.stuck_count + 1 >= StuckThreshold)
           \/ n.detour_ticks = 1 /\ ~same /\ n.stuck_count + 1 < StuckThreshold

\* C4 (as claimed): get_next_direction returns none if and only if navigation
\* is inactive, or the map differs from the target map, or the Chebyshev
\* distance to the target is at most 1; otherwise it returns a direction.
C4_NoneIffInactiveMapOrArrived ==
    [][nlast'.op = "get_next_direction" =>
          IF NoneByClaim(nav, nlast'.x, nlast'.y, nlast'.map)
          THEN nlast'.ret = NONE
          ELSE nlast'.ret \in Directions]_vars

\* C4 (amended): get_next_direction returns none if and only if navigation is
\* inactive, or the map differs from the target map, or the Chebyshev distance
\* to the target is at most 1, or the call gives up; otherwise it returns a
\* direction.
C4_NoneIffInactiveMapArrivedOrGiveUp ==
    [][nlast'.op = "get_next_direction" =>
          IF \/ NoneByClaim(nav, nlast'.x, nlast'.y, nlast'.map)
             \/ GivesUp(nav, nlast'.x, nlast'.y)
          THEN nlast'.ret = NONE
          ELSE nlast'.ret \in Directions]_vars

\* C4 witness: a call made on the target map has given up: it returned none
\* through the give-up return and cancelled the navigation.
C4_Witness ==
    /\ nlast.op = "get_next_direction"
    /\ nlast.via = "give_up"
    /\ nlast.ret = NONE
    /\ ~nav.active /\ nav.target = <<>>

\* C11: a get_next_direction call made while navigation is active with a map
\* id different from the target map returns none and leaves the navigator
\* inactive with target, target map and detour state cleared; while the
\* navigator is inactive every get_next_direction call returns none and
\* leaves it inactive, and only a successful set_target activates it again.
C11_MapChangeCancelsUntilSetTarget ==
    [][/\ (/\ nlast'.op = "get_next_direction"
           /\ nav.active
           /\ nlast'.map # nav.target_map)
          => /\ nlast'.ret = NONE
             /\ ~nav'.active
             /\ nav'.target = <<>>
             /\ nav'.target_map = -1
             /\ nav'.detour_dir = NONE
             /\ nav'.detour_ticks = 0
       /\ (nlast'.op = "get_next_direction" /\ ~nav.active)
          => nlast'.ret = NONE /\ ~nav'.active
       /\ (~nav.active /\ nav'.active)
          => nlast'.op = "set_target" /\ nlast'.ret = "TRUE"]_vars

\* C11 witness: a call on another map has just cancelled a navigation that
\* had been stuck before (the alternation index shows an abandoned detour),
\* and nothing of the target or the detour is left.
C11_Witness ==
    /\ nlast.op = "get_next_direction"
    /\ nlast.via = "map_changed"
    /\ nlast.ret = NONE
    /\ ~nav.active /\ nav.target = <<>> /\ nav.target_map = -1
    /\ nav.detour_dir = NONE /\ nav.detour_ticks = 0
    /\ nav.stuck_dir_idx > 0

\* At the moment of a call made during a detour: the call goes on with the
\* detour (ticks remain after this one) or finds its direction blocked (the
\* position is that of the previous call) and restarts it.
ContinuesDetour(n, x, y) ==
    /\ n.detour_ticks > 0
    /\ \/ x = n.prev_x /\ y = n.prev_y
       \/ n.detour_ticks > 1

\* C12 (as claimed): once the cumulative stuck counter has reached 15 the call
\* on which it is 15 cancels navigation and returns none, and no direction is
\* returned while the counter is at 15.
C12_GivesUpAtFifteen ==
    [][(/\ nlast'.op = "get_next_direction"
        /\ \/ nav.active /\ nav.total_stuck >= GiveUpThreshold
           \/ nav'.total_stuck >= GiveUpThreshold)
          => nlast'.ret = NONE /\ ~nav'.active]_vars

\* C12 (amended): the cumulative stuck counter never exceeds 15; the call
\* that raises it to 15 starts a detour of 12 ticks and returns its direction;
\* a call made with the counter at 15 on the target map and away from the
\* target returns the detour direction, the counter unchanged, when it goes on
\* with or restarts the detour, and otherwise gives up: it returns none and
\* cancels the navigation.
C12_GivesUpAfterLastDetour ==
    [][nlast'.op = "get_next_direction" =>
          /\ nav'.total_stuck <= GiveUpThreshold
          /\ (nav.total_stuck < GiveUpThreshold /\ nav'.total_stuck >= GiveUpThreshold)
                => /\ nlast'.ret \in Directions
                   /\ nlast'.ret = nav'.detour_dir
                   /\ nav'.detour_ticks = DetourCap
                   /\ nav'.active
          /\ (/\ nav.active
              /\ nav.total_stuck >= GiveUpThreshold
              /\ ~NoneByClaim(nav, nlast'.x, nlast'.y, nlast'.map))
                => IF ContinuesDetour(nav, nlast'.x, nlast'.y)
                   THEN /\ nlast'.ret \in Directions
                        /\ nlast'.ret = nav'.detour_dir
                        /\ nav'.total_stuck = nav.total_stuck
                        /\ nav'.active
                   ELSE /\ nlast'.ret = NONE
                        /\ ~nav'.active
                        /\ nav'.target = <<>>
                        /\ nav'.total_stuck = 0]_vars

\* C12 witness: with the counter at 15 a call has gone on with the last detour
\* and returned its direction.
C12_Witness ==
    /\ nlast.op = "get_next_direction"
    /\ nlast.via = "detour"
    /\ nlast.ret \in Directions
    /\ nav.active
    /\ nav.total_stuck = GiveUpThreshold
    /\ nav.detour_ticks < DetourCap

\* C13: every detour started gets min(3 + 2 * cumulative stuck counter, 12)
\* ticks, the counter taken as it is when _start_detour runs (the call that
\* detects the stuck event has already counted it), and the remaining
\* detour-tick count never exceeds 12.
C13_DetourLengthCapped ==
    /\ nav.detour_ticks <= DetourCap
    /\ (nlast.op = "get_next_direction" /\ nlast.via \in {"stuck", "detour_blocked"})
          => nav.detour_ticks = Min(DetourBase + 2 * nav.total_stuck, DetourCap)

\* C13 witness: the fifth stuck event has just started a detour; 3 + 2 * 5
\* is 13 and the detour got 12 ticks.
C13_Witness ==
    /\ nlast.op = "get_next_direction"
    /\ nlast.via = "stuck"
    /\ nav.total_stuck = 5
    /\ nav.detour_ticks = DetourCap
    /\ nlast.ret = nav.detour_dir

\* C14: a get_next_direction call that reaches greedy movement with deltas
\* dx = tx - x and dy = ty - y returns RIGHT if dx > 0 or LEFT if dx < 0 when
\* |dx| > |dy|, and otherwise DOWN if dy > 0 or UP if dy < 0 (dy is not zero
\* there), so equal nonzero deltas resolve to the Y axis.
C14_GreedyAxisPriority ==
    (nlast.op = "get_next_direction" /\ nlast.via = "greedy")
        => LET dx == nav.target[1] - nlast.x
               dy == nav.target[2] - nlast.y
           IN  /\ (Abs(dx) > Abs(dy) /\ dx > 0) => nlast.ret = "RIGHT"
               /\ (Abs(dx) > Abs(dy) /\ dx < 0) => nlast.ret = "LEFT"
               /\ (Abs(dx) <= Abs(dy) /\ dy > 0) => nlast.ret = "DOWN"
               /\ (Abs(dx) <= Abs(dy) /\ dy < 0) => nlast.ret = "UP"
               /\ Abs(dx) <= Abs(dy) => dy # 0

\* C14 witness: greedy movement two tiles off the target on both axes has
\* resolved the tie to the Y axis.
C14_Witness ==
    /\ nlast.op = "get_next_direction"
    /\ nlast.via = "greedy"
    /\ nav.target[1] - nlast.x = -2
    /\ nav.target[2] - nlast.y = -2
    /\ nlast.ret = "UP"

Opposite(dir) ==
    CASE dir = "UP" -> "DOWN"
      [] dir = "DOWN" -> "UP"
      [] dir = "LEFT" -> "RIGHT"
      [] dir = "RIGHT" -> "LEFT"
      [] OTHER -> NONE

\* The two directions perpendicular to the axis with the larger gap.
PerpendicularPair(dx, dy) ==
    IF Abs(dx) >= Abs(dy) THEN <<"UP", "DOWN">> ELSE <<"LEFT", "RIGHT">>

\* At the moment of a call get_next_direction(x, y, map): the call reaches the
\* detour step with a detour in progress.
InDetour(n, x, y, map) ==
    /\ n.active
    /\ map = n.target_map
    /\ Chebyshev(n.target, x, y) > 1
    /\ n.detour_ticks > 0

\* C15 (as claimed): a call during a detour at the position of the previous
\* call advances the alternation index by one and returns the opposite of the
\* abandoned detour direction.
C15_BlockedDetourReturnsOpposite ==
    [][(/\ nlast'.op = "get_next_direction"
        /\ InDetour(nav, nlast'.x, nlast'.y, nlast'.map)
        /\ nlast'.x = nav.prev_x /\ nlast'.y = nav.prev_y)
          => /\ nav'.stuck_dir_idx = nav.stuck_dir_idx + 1
             /\ nlast'.ret = Opposite(nav.detour_dir)]_vars

\* C15 (amended): a call during a detour at the position of the previous call
\* abandons the detour, advances the alternation index by one and starts a
\* new detour whose direction it returns: the option, selected by the
\* advanced index, of the pair perpendicular to the axis with the larger gap
\* at this call. That is the opposite of the abandoned direction whenever the
\* abandoned direction belongs to this pair.
C15_BlockedDetourReturnsIndexedOption ==
    [][(/\ nlast'.op = "get_next_direction"
        /\ InDetour(nav, nlast'.x, nlast'.y, nlast'.map)
        /\ nlast'.x = nav.prev_x /\ nlast'.y = nav.prev_y)
          => LET dx == nav.target[1] - nlast'.x
                 dy == nav.target[2] - nlast'.y
                 pair == PerpendicularPair(dx, dy)
             IN  /\ nav'.stuck_dir_idx = nav.stuck_dir_idx + 1
                 /\ nlast'.ret = pair[(nav'.stuck_dir_idx % 2) + 1]
                 /\ nav'.detour_dir = nlast'.ret
                 /\ nav'.detour_ticks = Min(DetourBase + 2 * nav.total_stuck, DetourCap)
                 /\ nav'.total_stuck = nav.total_stuck
                 /\ (nav.detour_dir \in {pair[1], pair[2]})
                       => nlast'.ret = Opposite(nav.detour_dir)]_vars

\* C15 witness: a detour has been found blocked where the Y gap is the larger
\* one; the index went to 1 and the new detour goes RIGHT.
C15_Witness ==
    /\ nlast.op = "get_next_direction"
    /\ nlast.via = "detour_blocked"
    /\ nav.stuck_dir_idx = 1
    /\ Abs(nav.target[1] - nlast.x) < Abs(nav.target[2] - nlast.y)
    /\ nlast.ret = "RIGHT"
    /\ nav.detour_dir = "RIGHT"

\* C16 (as claimed): a call made while a detour is in progress at a position
\* that differs from the previous call's decrements the remaining count by
\* one and returns the detour direction, also when the count reaches zero.
C16_DetourTickReturnsDetourDir ==
    [][(/\ nlast'.op = "get_next_direction"
        /\ InDetour(nav, nlast'.x, nlast'.y, nlast'.map)
        /\ ~(nlast'.x = nav.prev_x /\ nlast'.y = nav.prev_y))
          => /\ nav'.detour_ticks = nav.detour_ticks - 1
             /\ nlast'.ret = nav.detour_dir]_vars

\* C16 (amended): such a call decrements the remaining count by one; it
\* returns the detour direction if the count stays above zero; the call that
\* brings the count to zero resumes normal pathfinding itself: it returns the
\* greedy direction, or none, cancelling the navigation, when the cumulative
\* stuck counter has reached 15.
C16_LastDetourTickFallsThrough ==
    [][(/\ nlast'.op = "get_next_direction"
        /\ InDetour(nav, nlast'.x, nlast'.y, nlast'.map)
        /\ ~(nlast'.x = nav.prev_x /\ nlast'.y = nav.prev_y))
          => /\ nav'.detour_ticks = nav.detour_ticks - 1
             /\ IF nav.detour_ticks > 1
                THEN /\ nlast'.ret = nav.detour_dir
                     /\ nav'.detour_dir = nav.detour_dir
                     /\ nav'.active
                ELSE IF nav.total_stuck >= GiveUpThreshold
                THEN nlast'.ret = NONE /\ ~nav'.active
                ELSE /\ nlast'.ret = Greedy(nav.target[1] - nlast'.x,
                                            nav.target[2] - nlast'.y)
                     /\ nav'.active]_vars

\* C16 witness: the call that counted the last tick of a detour has returned
\* a greedy direction that is not the detour direction.
C16_Witness ==
    /\ nlast.op = "get_next_direction"
    /\ nlast.ticks = 1
    /\ nlast.via = "greedy"
    /\ nav.detour_ticks = 0
    /\ nav.detour_dir \in Directions
    /\ nlast.ret \in Directions \ {nav.detour_dir}
    /\ (nlast.x # 0 \/ nlast.y # 0)

\* At the moment of a call get_next_direction(x, y, map): the call reaches
\* stuck detection (it is not answered by the inactive, map, arrival or
\* detour steps).
RunsStuckDetection(n, x, y, map) ==
    /\ n.active
    /\ map = n.target_map
    /\ Chebyshev(n.target, x, y) > 1
    /\ ~ContinuesDetour(n, x, y)

\* C17 (as claimed): after a call on which stuck detection runs the
\* no-movement counter is zero if the position differs from the one recorded
\* from the previous call, and one more than before if the two are equal. The
\* claim is read in its weakest sense: where the count of the third
\* motionless tick starts a detour, the reset that comes with the detour is
\* accepted as well.
C17_StuckCounterTracksMovement ==
    [][(/\ nlast'.op = "get_next_direction"
        /\ RunsStuckDetection(nav, nlast'.x, nlast'.y, nlast'.map))
          => IF nlast'.x = nav.prev_x /\ nlast'.y = nav.prev_y
             THEN \/ nav'.stuck_count = nav.stuck_count + 1
                  \/ /\ nav.stuck_count + 1 >= StuckThreshold
                     /\ nav'.stuck_count = 0
             ELSE nav'.stuck_count = 0]_vars

\* The landmark registry has an entry for the key on the map.
KnownLandmark(map_id, landmark_key) ==
    /\ map_id \in DOMAIN nav.warp_data
    /\ landmark_key \in DOMAIN nav.warp_data[map_id]

\* C18: set_target with an unknown map id or an unknown landmark key returns
\* false and leaves every navigator field unchanged; a successful set_target
\* returns true, activates navigation on the new target and resets the
\* no-movement counter, the cumulative stuck counter, the alternation index,
\* the detour direction and the detour ticks.
C18_SetTargetFrame ==
    [][nlast'.op = "set_target" =>
          IF KnownLandmark(nlast'.map, nlast'.key)
          THEN /\ nlast'.ret = "TRUE"
               /\ nav'.active
               /\ nav'.target = nav.warp_data[nlast'.map][nlast'.key]
               /\ nav'.target_map = nlast'.map
               /\ nav'.stuck_count = 0
               /\ nav'.total_stuck = 0
               /\ nav'.stuck_dir_idx = 0
               /\ nav'.detour_dir = NONE
               /\ nav'.detour_ticks = 0
          ELSE /\ nlast'.ret = "FALSE"
               /\ nav' = nav]_vars

\* C18 witness: set_target with a key the target map does not have has
\* returned false in the middle of a detour, and the navigation is still
\* active with its counters and its detour.
C18_Witness ==
    /\ nlast.op = "set_target"
    /\ nlast.ret = "FALSE"
    /\ nlast.map = nav.target_map
    /\ ~KnownLandmark(nlast.map, nlast.key)
    /\ nav.active
    /\ nav.total_stuck > 0
    /\ nav.detour_ticks > 0
    /\ nav.detour_dir \in Directions

\* C28 (as stated): the direction of a detour started by stuck detection is
\* perpendicular to the direction greedy movement returns for the same
\* deltas: UP or DOWN when greedy movement goes LEFT or RIGHT, LEFT or RIGHT
\* when it goes UP or DOWN, equal nonzero deltas included.
C28_DetourPerpendicularToGreedy ==
    (nlast.op = "get_next_direction" /\ nlast.via = "stuck")
        => LET dx == nav.target[1] - nlast.x
               dy == nav.target[2] - nlast.y
           IN  /\ Greedy(dx, dy) \in {"LEFT", "RIGHT"} => nlast.ret \in {"UP", "DOWN"}
               /\ Greedy(dx, dy) \in {"UP", "DOWN"} => nlast.ret \in {"LEFT", "RIGHT"}

---------------------------------------------------------------------------
(* Claims about the battle tracker *)

EveryMemberFainted(party) == \A i \in DOMAIN party : party[i].hp_current = 0

ObservesBattleEnd == blast'.op \in {"update", "tick"} /\ bm.in_battle /\ blast'.in_battle = 0

\* C5 (as claimed): on an update that observes the end of a battle the outcome
\* is whiteout if and only if every party member of the snapshot has current
\* HP 0 or the snapshot money is below the money recorded at battle start;
\* otherwise it is won.
C5_WhiteoutIffAllZeroOrMoneyLower ==
    [][ObservesBattleEnd =>
          blast'.battle_end =
              IF EveryMemberFainted(blast'.party) \/ blast'.money < bm.prev_money
              THEN "whiteout" ELSE "won"]_vars

\* C5 (amended): the outcome is whiteout if and only if the snapshot party is
\* not empty and every member has current HP 0, or the snapshot money is below
\* the money recorded at battle start; otherwise it is won.
C5_WhiteoutIffNonEmptyAllZeroOrMoneyLower ==
    [][ObservesBattleEnd =>
          blast'.battle_end =
              IF \/ blast'.party # <<>> /\ EveryMemberFainted(blast'.party)
                 \/ blast'.money < bm.prev_money
              THEN "whiteout" ELSE "won"]_vars

\* C5 witness: a trainer battle that started with money 1 has just ended as a
\* whiteout on a snapshot with both members at HP 0 and the money unchanged.
C5_Witness ==
    /\ blast.op = "update" /\ blast.in_battle = 0
    /\ blast.battle_end = "whiteout"
    /\ blast.party = <<Member(0), Member(0)>>
    /\ blast.money = bm.prev_money /\ bm.prev_money = 1
    /\ bm.whiteouts = 1 /\ ~bm.in_battle

ObservesBattleStart ==
    blast'.op \in {"update", "tick"} /\ ~bm.in_battle /\ blast'.in_battle > 0

\* C19: the battle turn counter is set to zero on exactly the update calls
\* that observe a none-to-battle transition (any other call leaves it or adds
\* one), and while in battle it equals the number of update calls made since
\* the call that observed the battle start.
C19_TurnsCountCallsSinceStart ==
    /\ [](bm.in_battle => bm.battle_turns = blast.since)
    /\ [][blast'.op \in {"update", "tick"} =>
             IF ObservesBattleStart
             THEN bm'.battle_turns = 0 /\ bm'.in_battle
             ELSE /\ bm'.battle_turns \in {bm.battle_turns, bm.battle_turns + 1}
                  /\ bm'.battle_turns = bm.battle_turns + 1
                        <=> (bm.in_battle /\ bm'.in_battle)]_vars

\* C19 witness: a second battle, begun after a finished one, has seen one
\* update since the call that observed its start, and its turn counter is 1.
C19_Witness ==
    /\ bm.in_battle
    /\ bm.battles_won + bm.whiteouts = 1
    /\ bm.battle_turns = 1
    /\ blast.since = 1
    /\ blast.battle_start = ""

\* C20: each update call that observes a battle-to-none transition increments
\* exactly one of the won and whiteout counters by one, and an update call
\* that observes no such transition changes neither counter.
C20_ExactlyOneCounterPerBattleEnd ==
    [][blast'.op \in {"update", "tick"} =>
          IF ObservesBattleEnd
          THEN \/ /\ bm'.battles_won = bm.battles_won + 1
                  /\ bm'.whiteouts = bm.whiteouts
               \/ /\ bm'.battles_won = bm.battles_won
                  /\ bm'.whiteouts = bm.whiteouts + 1
          ELSE /\ bm'.battles_won = bm.battles_won
               /\ bm'.whiteouts = bm.whiteouts]_vars

\* C20 witness: two battles have ended, the first won, the second, just now,
\* as a whiteout.
C20_Witness ==
    /\ blast.op \in {"update", "tick"}
    /\ blast.battle_end = "whiteout"
    /\ bm.battles_won = 1
    /\ bm.whiteouts = 1
    /\ ~bm.in_battle


\* C21 (as stated): when a tick observes a battle start, the tracker records
\* the raw battle code of the snapshot file and reports its kind: code 1 is
\* recorded as 1 and reported wild, code 2 is recorded as 2 and reported
\* trainer, the snapshot being the one GameState.read produces.
C21_KindFollowsRawCode ==
    (blast.op = "tick" /\ blast.battle_start # "") =>
        /\ blast.raw = 1 =>
              /\ bm.battle_type = 1
              /\ blast.battle_start = "wild"
              /\ BattleLabel(bm) = "WILD"
        /\ blast.raw = 2 =>
              /\ bm.battle_type = 2
              /\ blast.battle_start = "trainer"
              /\ BattleLabel(bm) = "TRAINER"

---------------------------------------------------------------------------
(* Claims about type effectiveness and move recommendation *)

\* the number of times a type occurs in a list of defending types
Occurrences(type, defend_types) ==
    Cardinality({i \in DOMAIN defend_types : defend_types[i] = type})

RECURSIVE Power(_, _)
Power(factor, n) == IF n = 0 THEN One ELSE Mul(factor, Power(factor, n - 1))

\* the product of the pairwise factors over the defending types that appear
\* in a row, each taken as often as it is listed
RECURSIVE ProductOverRow(_, _, _)
ProductOverRow(row, types, defend_types) ==
    IF types = {} THEN One
    ELSE LET t == CHOOSE x \in types : TRUE
         IN  Mul(Power(row[t], Occurrences(t, defend_types)),
                 ProductOverRow(row, types \ {t}, defend_types))

\* every reordering of a list
Reorderings(s) ==
    IF s = <<>> THEN {<<>>}
    ELSE {[i \in DOMAIN s |-> s[p[i]]] : p \in Permutations(DOMAIN s)}

\* C22: get_type_effectiveness returns the product of the pairwise factors
\* over the defending types that appear in the row of the attack type; it
\* returns 1.0 when the table is empty, the attack type has no row or no
\* defending type appears in the row; and it returns the same value for
\* every order of the defending types.
C22_EffectivenessIsProductOverRow ==
    alast.op = "get_type_effectiveness" =>
        LET row == Matchups(type_chart, alast.attack)
        IN  /\ alast.effectiveness =
                   ProductOverRow(row, DOMAIN row, alast.defend)
            /\ (\/ DOMAIN type_chart = {}
                \/ alast.attack \notin DOMAIN type_chart
                \/ \A i \in DOMAIN alast.defend : alast.defend[i] \notin DOMAIN row)
                   => alast.effectiveness = One
            /\ \A d \in Reorderings(alast.defend) :
                   GetTypeEffectivenessOn(type_chart, alast.attack, d) =
                       alast.effectiveness

\* C22 witness: Water against Rock and Ground with the game's rows gives
\* four times the damage.
C22_Witness ==
    /\ alast.op = "get_type_effectiveness"
    /\ type_chart = GameChart
    /\ alast.attack = "Water"
    /\ alast.defend = <<"Rock", "Ground">>
    /\ alast.effectiveness = Rat(4, 1)

\* the slots of a move list holding a non-empty move of known type
TypedSlots(moves) ==
    {i \in DOMAIN moves : moves[i] \notin {"", "---"} /\ moves[i] \in DOMAIN MOVE_TYPES}

\* the effectiveness of the move in a slot against a species
SlotEffectiveness(moves, i, enemy_name) ==
    GetTypeEffectivenessOn(type_chart, MOVE_TYPES[moves[i]], EnemyTypes(enemy_name))

\* C23: recommend_move returns none when the species is unknown or no
\* non-empty move of known type has effectiveness above 1.0; otherwise it
\* names the first move in slot order whose effectiveness is the maximum
\* over those moves.
C23_RecommendsFirstMostEffective ==
    alast.op = "recommend_move" =>
        LET moves == alast.moves
            slots == TypedSlots(moves)
            eff(i) == SlotEffectiveness(moves, i, alast.enemy)
        IN  IF \/ alast.enemy \notin DOMAIN SPECIES_TYPES
               \/ ~ \E i \in slots : Greater(eff(i), One)
            THEN alast.advice = NoAdvice
            ELSE \E i \in slots :
                    /\ \A j \in slots : ~Greater(eff(j), eff(i))
                    /\ \A j \in slots : j < i => eff(j) # eff(i)
                    /\ alast.advice = [move |-> moves[i], effectiveness |-> eff(i)]

\* C23 witness: Surf and Water Gun are both four times effective against
\* Geodude; the one in the earlier slot is named.
C23_Witness ==
    /\ alast.op = "recommend_move"
    /\ type_chart = GameChart
    /\ alast.moves = <<"Surf", "Water Gun">>
    /\ alast.enemy = "Geodude"
    /\ alast.advice = [move |-> "Surf", effectiveness |-> Rat(4, 1)]

---------------------------------------------------------------------------
(* Claims about the persisted goal document *)

\* the calls the claim lists as changing the goal tree
TreeChangingCalls ==
    {"add_goal", "add_subgoals", "complete_goal", "fail_goal", "block_goal",
     "get_current_goal", "goal_update_complete", "goal_update_fail",
     "goal_update_progress"}

\* C24 (as stated): at the return of every call that changed the goal tree,
\* the progress-note step of the game loop included, the persisted document
\* equals the tree in memory: same counter, same fields for every goal.
C24_DocumentEqualsTreeAfterChange ==
    [][(plast'.op \in TreeChangingCalls /\ goals' # goals)
           => doc' = SavedDoc(goals', id_counter')]_vars

\* C25 (as stated): after a crash during a persistence write the stored
\* document is the complete previous document or the complete new one.
C25_CrashLeavesOldOrNewDocument ==
    [][plast'.op = "crashed"
           => doc' \in {doc, SavedDoc(goals', id_counter')}]_vars

\* a document that is missing or cannot be read in full
Unreadable(d) ==
    \/ d.file \in {"missing", "cut"}
    \/ \E i \in DOMAIN d.goals : ~ValidRecord(JsonLoadsRecord(d.goals[i]))

\* C26 (as stated): constructing the planner over a missing or unreadable
\* document, one with a single invalid goal record included, raises nothing
\* and yields an empty forest.
C26_UnreadableDocumentLoadsNothing ==
    (plast.op = "construct" /\ Unreadable(doc)) => goals = <<>>

\* a complete document all of whose records the planner could have written
PlannerWritten(d) ==
    /\ d.file = "complete"
    /\ \A i \in DOMAIN d.goals : ValidRecord(JsonLoadsRecord(d.goals[i]))

\* the text a planner-written document holds for the status of a goal: the
\* value of the status between double quotes
C27_StatusText(status) ==
    CASE status = PENDING -> "\"pending\""
      [] status = ACTIVE -> "\"active\""
      [] status = IN_PROGRESS -> "\"in_progress\""
      [] status = COMPLETED -> "\"completed\""
      [] status = FAILED -> "\"failed\""
      [] status = BLOCKED -> "\"blocked\""

\* the text a planner-written document holds for the id goal_<n>
C27_IdText(n) == "\"goal_" \o ToString(n) \o "\""

\* the goal in memory has the fields the record says
C27_SameFields(g, record) ==
    /\ record.status = C27_StatusText(g.status)
    /\ record.priority = g.priority
    /\ record.parent_id = "null" <=> g.parent_id = 0
    /\ g.parent_id # 0 => record.parent_id = C27_IdText(g.parent_id)
    /\ Len(record.children_ids) = Len(g.children_ids)
    /\ \A k \in DOMAIN g.children_ids :
           record.children_ids[k] = C27_IdText(g.children_ids[k])
    /\ Len(record.prerequisites) = Len(g.prerequisites)
    /\ \A k \in DOMAIN g.prerequisites :
           record.prerequisites[k] = C27_IdText(g.prerequisites[k])
    /\ record.notes = g.notes
    /\ record.attempts = g.attempts
    /\ record.max_attempts = g.max_attempts

\* C27: loading a document written by _save reconstructs the saved state.
\* (1) After every construction over a planner-written document the counter
\* is the document's, the stored ids are the document's keys, every goal has
\* the id, status, priority, parent, ordered children, prerequisites, notes,
\* attempts and max_attempts its record holds, saving again gives the same
\* document, and no stored id is above the counter, so the next id issued
\* is a new one. (2) A restart over the document _save wrote for the state
\* in memory leaves the goals and the counter as they were.
C27_ReloadReconstructsSavedState ==
    /\ []((plast.op = "construct" /\ PlannerWritten(doc)) =>
              /\ id_counter = doc.counter
              /\ DOMAIN goals = DOMAIN doc.goals
              /\ \A i \in DOMAIN goals :
                    /\ doc.goals[i].id = C27_IdText(i)
                    /\ C27_SameFields(goals[i], doc.goals[i])
              /\ \A i \in DOMAIN goals : i <= id_counter
              /\ NextId(id_counter) \notin DOMAIN goals
              /\ SavedDoc(goals, id_counter) = doc)
    /\ [][(plast'.op = "construct" /\ doc' = doc
               /\ doc = SavedDoc(goals, id_counter))
              => (goals' = goals /\ id_counter' = id_counter)]_vars

\* C27 witness: a planner restarted over the document saved after goal_2,
\* the child of goal_1 with goal_1 as prerequisite, was completed (completing
\* goal_1 with a note) and an attempt at goal_1 then failed.
C27_Witness ==
    /\ plast.op = "construct"
    /\ doc.file = "complete"
    /\ DOMAIN goals = {1, 2}
    /\ goals[1].children_ids = <<2>>
    /\ goals[1].attempts = 1
    /\ goals[1].notes = 2
    /\ goals[1].status = PENDING
    /\ goals[2].status = COMPLETED
    /\ goals[2].parent_id = 1
    /\ goals[2].prerequisites = <<1>>
    /\ doc.goals[2].status = "\"completed\""
    /\ doc.goals[1].parent_id = "null"
    /\ id_counter = 2

---------------------------------------------------------------------------
(* Further claims about the goal tree *)

\* following parent references from goal i ends at a root within n steps
RECURSIVE EndsAtRoot(_, _, _)
EndsAtRoot(gs, i, n) ==
    IF gs[i].parent_id = 0 THEN TRUE
    ELSE IF n = 0 \/ gs[i].parent_id \notin DOMAIN gs THEN FALSE
    ELSE EndsAtRoot(gs, gs[i].parent_id, n - 1)

\* the number of times an id occurs in a child list
TimesListed(children_ids, id) ==
    Cardinality({k \in DOMAIN children_ids : children_ids[k] = id})

\* C29 (as stated): in every reachable state, whatever the add_goal
\* arguments were, every parent reference names a stored goal that lists the
\* goal exactly once among its children, every listed child is a stored goal
\* whose parent is the listing goal, following parent references ends at a
\* root, and no call removes a goal.
C29_ParentChildForest ==
    /\ [](\A i \in DOMAIN goals :
            /\ goals[i].parent_id # 0 =>
                  /\ goals[i].parent_id \in DOMAIN goals
                  /\ TimesListed(goals[goals[i].parent_id].children_ids, i) = 1
            /\ \A k \in DOMAIN goals[i].children_ids :
                  /\ goals[i].children_ids[k] \in DOMAIN goals
                  /\ goals[goals[i].children_ids[k]].parent_id = i
            /\ EndsAtRoot(goals, i, Len(goals)))
    /\ [][Len(goals') >= Len(goals)]_vars

\* C30 (as stated): get_current_goal returns none only when the tree is
\* empty or every goal is completed.
C30_NoneOnlyWhenAllCompleted ==
    (plast.op = "get_current_goal" /\ plast.ret = 0)
        => \A i \in DOMAIN goals : goals[i].status = COMPLETED

\* a child of goal g that _get_next_child would return: stored, and active,
\* in_progress, or pending with all prerequisites completed
ActionableChildren(gs, g) ==
    {k \in DOMAIN gs[g].children_ids :
        /\ gs[g].children_ids[k] \in DOMAIN gs
        /\ \/ IsActive(gs[gs[g].children_ids[k]])
           \/ /\ gs[gs[g].children_ids[k]].status = PENDING
              /\ PrerequisitesMet(gs, gs[gs[g].children_ids[k]])}

\* C31 (as stated): the goal returned by get_current_goal has, when the call
\* returns, no child that is active, in_progress, or pending with all its
\* prerequisites completed.
C31_ReturnsActionableLeaf ==
    (plast.op = "get_current_goal" /\ plast.ret > 0)
        => ActionableChildren(goals, plast.ret) = {}

---------------------------------------------------------------------------
(* Further claims about navigation *)

\* C32 (as stated): within a navigation episode the k-th detour started by
\* stuck detection lasts 3 + 2(k - 1) ticks, at most 12: the first lasts 3,
\* the second 5, the third 7. The cumulative stuck counter is k after the
\* call that starts the k-th such detour.
C32_DetourLengthsStartAtThree ==
    (nlast.op = "get_next_direction" /\ nlast.via = "stuck")
        => nav.detour_ticks = Min(DetourBase + 2 * (nav.total_stuck - 1), DetourCap)

---------------------------------------------------------------------------
(* Claims about what selection changes *)

\* the goals a step changes
ChangedGoals == {g \in DOMAIN goals : g \in DOMAIN goals' /\ goals'[g] # goals[g]}

\* C33: a get_current_goal call adds or removes no goal and changes at most
\* one goal; the goal it changes was pending with all its prerequisites
\* completed, and the only field changed is its status, which becomes active.
\* A blocked, failed or completed goal is therefore never changed.
C33_SelectionFrame ==
    [][plast'.op = "get_current_goal"
          => /\ Len(goals') = Len(goals)
             /\ Cardinality(ChangedGoals) <= 1
             /\ \A g \in ChangedGoals :
                   /\ goals[g].status = PENDING
                   /\ PrerequisitesMet(goals, goals[g])
                   /\ goals'[g] = [goals[g] EXCEPT !.status = ACTIVE]]_vars

\* C33 witness: get_current_goal returned goal_3, the root it promoted once
\* its prerequisite goal_2 was completed, while goal_1 stays blocked.
C33_Witness ==
    /\ plast.op = "get_current_goal" /\ plast.ret = 3
    /\ Len(goals) = 3
    /\ goals[3].status = ACTIVE /\ goals[3].prerequisites = <<2>>
    /\ goals[2].status = COMPLETED
    /\ goals[1].status = BLOCKED
    /\ \A g \in {1, 2} : goals[g].status # ACTIVE

\* the root-level goals (no parent) that are active or in_progress
ActiveRoots(gs) == {g \in DOMAIN gs : gs[g].parent_id = 0 /\ IsActive(gs[g])}

\* C34: in every state reached from the empty tree, at most one root-level
\* goal is active or in_progress.
C34_AtMostOneActiveRoot == Cardinality(ActiveRoots(goals)) <= 1

\* C34 witness: get_current_goal returned the active root goal_2 and left the
\* roots goal_1 and goal_3 pending although both are eligible.
C34_Witness ==
    /\ plast.op = "get_current_goal" /\ plast.ret = 2
    /\ Len(goals) = 3
    /\ ActiveRoots(goals) = {2}
    /\ Eligible(goals) = {1, 3}

---------------------------------------------------------------------------
(* Further claims about battle tracking *)

\* C37: in every state of the battle tracker, reached by update calls with
\* battle codes 0, 1 and 2, the in-battle flag is true exactly when the
\* recorded battle kind is not zero.
C37_FlagIffKindNonzero == bm.in_battle <=> bm.battle_type # 0

\* C37 witness: an update call with code 2 started a trainer battle after an
\* earlier battle had ended and reset the kind.
C37_Witness ==
    /\ blast.op = "update" /\ blast.in_battle = 2 /\ blast.battle_start = "trainer"
    /\ bm.in_battle /\ bm.battle_type = 2
    /\ bm.battles_won + bm.whiteouts >= 1

---------------------------------------------------------------------------
(* Navigation episodes: an unobstructed walk and an unchanging position *)

\* the tile reached by walking one step in a returned direction; none leaves
\* the player where it is
Moved(x, y, dir) ==
    IF dir = "UP" THEN <<x, y - 1>>
    ELSE IF dir = "DOWN" THEN <<x, y + 1>>
    ELSE IF dir = "LEFT" THEN <<x - 1, y>>
    ELSE IF dir = "RIGHT" THEN <<x + 1, y>>
    ELSE <<x, y>>

\* set_target has just succeeded: the next call is the first of the episode
EpisodeOpen == nlast.op = "set_target" /\ nlast.ret = "TRUE"

\* no episode is running: nothing was set yet, set_target failed, or the
\* last call returned none
EpisodeOver ==
    \/ nlast.op = "init"
    \/ nlast.op = "set_target" /\ nlast.ret = "FALSE"
    \/ nlast.op = "get_next_direction" /\ nlast.ret = NONE

\* set_target between episodes
Retarget == EpisodeOver /\ \E i \in SetTargetInputs : SetTarget(i[1], i[2])

\* the first call of an episode, with the player anywhere on the target map
WalkFirst ==
    /\ EpisodeOpen
    /\ \E x \in 0..WalkCoord, y \in 0..WalkCoord : GetNextDirection(x, y, nav.target_map)

\* a later call: the player has walked one tile in the direction returned by
\* the call before and is still on the same map
WalkOn ==
    /\ nlast.op = "get_next_direction"
    /\ LET p == Moved(nlast.x, nlast.y, nlast.ret)
       IN  /\ p[1] \in 0..WalkCoord /\ p[2] \in 0..WalkCoord
           /\ GetNextDirection(p[1], p[2], nlast.map)

WalkNext == Retarget \/ WalkFirst \/ WalkOn

\* The navigator has no caller in the repository (GameLoop only constructs
\* it); the calls of an episode are counted by the caller, who keeps calling.
SpecWalk == InitNav /\ [][WalkNext]_vars /\ WF_vars(WalkFirst \/ WalkOn)

\* _stuck_dir_idx grows without bound while only its remainder modulo the two
\* options is read: beyond MaxDirIdx the index is kept with the same parity.
FoldDirIdx(n) ==
    [n EXCEPT !.stuck_dir_idx = IF @ > MaxDirIdx THEN @ - 2 ELSE @]

\* get_next_direction(x, y, target map) in an episode whose position never
\* changes
StayCall(x, y) ==
    /\ LET r == NextDirection(nav, x, y, nav.target_map)
       IN  /\ nav' = FoldDirIdx(r.nav)
           /\ nlast' = [op |-> "get_next_direction", x |-> x, y |-> y,
                        map |-> nav.target_map, key |-> "", ticks |-> nav.detour_ticks,
                        ret |-> r.ret, via |-> r.via]
    /\ UNCHANGED <<plannerVars, battleVars>>

\* the first call of an episode, more than one tile from the target on some
\* axis
StayFirst ==
    /\ EpisodeOpen
    /\ \E x \in 0..WalkCoord, y \in 0..WalkCoord :
          /\ ~Arrived(nav.target[1] - x, nav.target[2] - y)
          /\ StayCall(x, y)

\* a later call passes the same position
StayOn ==
    /\ nlast.op = "get_next_direction" /\ nlast.ret # NONE
    /\ StayCall(nlast.x, nlast.y)

StayNext == Retarget \/ StayFirst \/ StayOn

SpecStay == InitNav /\ [][StayNext]_vars /\ WF_vars(StayFirst \/ StayOn)

---------------------------------------------------------------------------
(* Claims about navigation episodes *)

Manhattan(t, x, y) == Abs(t[1] - x) + Abs(t[2] - y)

\* the navigator reported arrival: the call returned none through the
\* arrival test and left the navigator inactive
ReportedArrival ==
    nlast.op = "get_next_direction" /\ nlast.via = "arrived" /\ ~nav.active

\* C35: when the player walks one tile in each returned direction and stays
\* on the target map, no detour is ever started, each returned direction
\* takes the player one step closer to the target in Manhattan distance, and
\* every episode ends with the navigator reporting arrival.
C35_UnobstructedWalkArrives ==
    /\ [](/\ nav.detour_ticks = 0 /\ nav.detour_dir = NONE /\ nav.total_stuck = 0
          /\ nlast.op = "get_next_direction" => nlast.via \in {"greedy", "arrived", "inactive"}
          /\ (nlast.op = "get_next_direction" /\ nlast.ret # NONE)
                => LET p == Moved(nlast.x, nlast.y, nlast.ret)
                   IN  Manhattan(nav.target, p[1], p[2])
                           = Manhattan(nav.target, nlast.x, nlast.y) - 1)
    /\ (EpisodeOpen ~> ReportedArrival)

\* C35 witness: the navigator reported arrival next to (0, 0) after a walk
\* that came in along the Y axis from a tile away.
C35_Witness ==
    /\ ReportedArrival
    /\ nav.target = <<0, 0>>
    /\ nlast.x = 1 /\ nlast.y = 1
    /\ nav.prev_x = 1 /\ nav.prev_y = 2

\* the navigator gave up: the call returned none and left it inactive
GaveUp == nlast.op = "get_next_direction" /\ nlast.ret = NONE /\ ~nav.active

\* C36 (as stated): when every call of an episode passes the same position,
\* more than one tile from the target on some axis, the navigator gives up
\* after finitely many calls.
C36_UnchangingPositionGivesUp == EpisodeOpen ~> GaveUp

===========================================================================
